---- MODULE Spec2Model ----
(***************************************************************************)
(* A model of the WebAssembly bridge of godeps/opus: the process-wide      *)
(* wasm context (wasm_context.go, kept in src/README.md from line 227),    *)
(* the Encoder (src/encoder.go), the Decoder (src/unnamed/part_004) and    *)
(* the error type (src/errors.go).                                         *)
(*                                                                         *)
(* Host goroutines are the Tasks.  Every handler is cut into steps at its  *)
(* sandbox calls, so that the interleavings of goroutines are behaviours   *)
(* of the model; a handler run by one goroutine alone executes its steps   *)
(* back to back.                                                           *)
(***************************************************************************)
EXTENDS Integers, Sequences, FiniteSets, TLC

\* ------------------------------------------------------------------ bounds
NumTasks   == 2    \* goroutines of the concurrent specifications
NumHandles == 2    \* Encoder/Decoder objects the host creates
NumPtrs    == 4    \* addresses the sandbox allocator hands out (0 is NULL)
MaxCloses  == 1    \* CloseWasmContext calls that pass the nil check
MaxRelease == 2    \* times the cleanup closure of one handle is run
MaxLen     == 2    \* longest host buffer (elements)

Tasks   == 1..NumTasks
Handles == 1..NumHandles
Ptrs    == 1..NumPtrs
CtxIds  == 1..(MaxCloses + 1)

\* ------------------------------------------------------ program constants
OPUS_OK             == 0
OPUS_BAD_ARG        == -1
OPUS_INVALID_PACKET == -4

\* The entry points initWasm resolves, in the order it resolves them.  The
\* model keeps the ones its operations call; the remaining control entries
\* and constant getters go through the same loadFunc.
Catalogue ==
  << "malloc", "free",
     "opus_encoder_get_size", "opus_encoder_init", "opus_encode",
     "opus_encode_float", "bridge_encoder_set_bitrate",
     "bridge_encoder_get_bitrate", "bridge_encoder_reset_state",
     "opus_decoder_get_size", "opus_decoder_init", "opus_decode",
     "opus_decode_float", "bridge_decoder_get_last_packet_duration",
     "get_opus_ok_address" >>

Names == { Catalogue[i] : i \in 1..Len(Catalogue) }

VARIABLES
  binary,     \* the embedded module: what compiling and instantiating it gives
  once,       \* wasmInitOnce: "fresh", "running" or "done"
  initErr,    \* wasmInitErr
  globalCtx,  \* globalWasmContext: 0 is nil, else the index of a context
  nInits,     \* times the body of wasmInitOnce.Do has been entered
  rt,         \* the runtime each run of the body created: "none", "open", "closed"
  ctxs,       \* the wasmContext objects: runtime, module, functions
  bodyDone,   \* whether the last run of the body has returned
  heap,       \* linear memory of each instance: what each address holds
  handles,    \* the Encoder/Decoder objects
  pc,         \* where each goroutine is
  loc,        \* the locals of the handler each goroutine runs
  raced,      \* instances on which two sandbox calls have overlapped
  faults,     \* whether the sandbox may trap, run out of memory, report errors
  shadow,     \* per handle: the control value a serial run would hold
  crashed,    \* "no", "fatal" (log.Fatalf) or "panic"
  nCloses,    \* CloseWasmContext calls that passed the nil check
  badFree,    \* a free of an address that held no live allocation
  stateFrees, \* per handle: calls of the free entry with its state pointer
  relCalls    \* per handle: runs of its cleanup closure

vars == << binary, once, initErr, globalCtx, nInits, rt, ctxs, bodyDone, heap,
           handles, pc, loc, raced, faults, shadow, crashed, nCloses,
           badFree, stateFrees, relCalls >>

\* ------------------------------------------------------------------ errors
\* An error value: kind "nil" is the nil error; "codec" is the type Error
\* with its code; every other kind is an error made by fmt.Errorf.
Err(kind, code, what) == [kind |-> kind, code |-> code, what |-> what]
NoErr        == Err("nil", 0, "")
Uninit       == Err("uninit", 0, "")
InputErr(w)  == Err("input", 0, w)
ProtoErr(w)  == Err("proto", 0, w)
CodecErr(c)  == Err("codec", c, "")
WrapInit(e)  == Err("init", e.code, e.what)

Min(a, b) == IF a < b THEN a ELSE b

\* loadFunc: the first name of the catalogue the module does not export
\* is the one wasmInitErr keeps.
FirstMissing(missing) ==
  LET idx == { i \in 1..Len(Catalogue) : Catalogue[i] \in missing }
  IN  Catalogue[CHOOSE i \in idx : \A j \in idx : i <= j]

\* The embedded binary is a static input: what it lacks it lacks at every
\* attempt.
GoodBinary == [compile |-> TRUE, instantiate |-> TRUE, missing |-> {},
               consts |-> TRUE, strerror |-> TRUE]
Binaries ==
  { GoodBinary,
    [GoodBinary EXCEPT !.compile = FALSE],
    [GoodBinary EXCEPT !.instantiate = FALSE],
    [GoodBinary EXCEPT !.missing = {"free"}],
    [GoodBinary EXCEPT !.missing = {"opus_decode", "opus_encode"}],
    [GoodBinary EXCEPT !.consts = FALSE] }

NilCtx == [runtime |-> FALSE, module |-> FALSE, funcs |-> {}]
FreeCell == [kind |-> "free", val |-> 0, owner |-> 0]
NoHandle == [state |-> "unused", kind |-> "none", wctx |-> 0, ptr |-> 0,
             channels |-> 0, maker |-> 0]
NoArgs == [len |-> 0, cap |-> 0, v |-> 0, ch |-> 0, bad |-> FALSE]
NoLoc == [op |-> "none", h |-> 0, wctx |-> 0, err |-> NoErr, val |-> 0,
          args |-> NoArgs, defers |-> << >>, log |-> << >>, p1 |-> 0, p2 |-> 0,
          before |-> {}, out |-> 0, ret |-> 0, trapped |-> FALSE,
          prev |-> NoErr, msg |-> "", dst |-> << >>, pcm |-> << >>,
          bytes |-> << >>, dst0 |-> << >>]

Live(c) == { p \in Ptrs : heap[c][p].kind # "free" }

InitWith(bins, f) ==
  /\ binary \in bins
  /\ faults = f
  /\ once = "fresh"
  /\ initErr = NoErr
  /\ globalCtx = 0
  /\ nInits = 0
  /\ rt = [c \in CtxIds |-> "none"]
  /\ ctxs = [c \in CtxIds |-> NilCtx]
  /\ bodyDone = FALSE
  /\ heap = [c \in CtxIds |-> [p \in Ptrs |-> FreeCell]]
  /\ handles = [h \in Handles |-> NoHandle]
  /\ pc = [t \in Tasks |-> "idle"]
  /\ loc = [t \in Tasks |-> NoLoc]
  /\ raced = {}
  /\ shadow = [h \in Handles |-> 0]
  /\ crashed = "no"
  /\ nCloses = 0
  /\ badFree = FALSE
  /\ stateFrees = [h \in Handles |-> 0]
  /\ relCalls = [h \in Handles |-> 0]

Goto(t, where) == pc' = [pc EXCEPT ![t] = where]
SetLoc(t, l)   == loc' = [loc EXCEPT ![t] = l]
Running        == crashed = "no"

\* ------------------------------------------------- the process-wide context
\* wasmInitOnce.Do: the caller that finds the Once fresh runs the body,
\* callers that arrive while it runs wait for it, later callers skip it.
OnceAdmitsAll(o) == TRUE
OnceAdmits(o) == o # "running"
OnceRunsWhenNil(o) == o = "fresh" \/ (o = "done" /\ globalCtx = 0)
OnceRuns(o)   == o = "fresh"

OnceDo(t) ==
  /\ Running
  /\ pc[t] = "gwc_once"
  /\ OnceAdmits(once)
  /\ IF OnceRuns(once)
       THEN /\ nInits < MaxCloses + 1
            /\ once' = "running"
            /\ nInits' = nInits + 1
            /\ bodyDone' = FALSE
            /\ Goto(t, "init_load")
            /\ SetLoc(t, [loc[t] EXCEPT !.wctx = nInits + 1])
       ELSE /\ Goto(t, "gwc_ret")
            /\ UNCHANGED << once, nInits, bodyDone, loc >>
  /\ UNCHANGED << binary, initErr, globalCtx, rt, ctxs, heap, handles, raced, faults, shadow, crashed, nCloses, badFree, stateFrees,
                  relCalls >>

\* The body, first part: NewRuntime, CompileModule, InstantiateModule.
InitLoad(t) ==
  /\ Running
  /\ pc[t] = "init_load"
  /\ LET k == loc[t].wctx IN
     IF ~binary.compile \/ ~binary.instantiate
       THEN /\ initErr' = Err(IF binary.compile THEN "instantiate"
                              ELSE "compile", 0, "")
            /\ rt' = [rt EXCEPT ![k] = "closed"]
            /\ Goto(t, "init_end")
       ELSE /\ rt' = [rt EXCEPT ![k] = "open"]
            /\ Goto(t, "init_resolve")
            /\ UNCHANGED initErr
  /\ UNCHANGED << binary, once, globalCtx, nInits, ctxs, bodyDone, heap,
                  handles, loc, raced, faults, shadow, crashed, nCloses, badFree, stateFrees, relCalls >>

\* if wasmInitErr != nil { rt.Close(initCtx); ... return }
ResolveNoCleanup(k) == rt
ResolveCleanup(k) == [rt EXCEPT ![k] = "closed"]

\* The body, second part: loadFunc for every entry of the catalogue, then
\* either the cleanup or the assignment of globalWasmContext.
InitResolve(t) ==
  /\ Running
  /\ pc[t] = "init_resolve"
  /\ LET k == loc[t].wctx
         e == IF binary.missing # {} /\ initErr = NoErr
                THEN Err("missing", 0, FirstMissing(binary.missing))
                ELSE initErr
     IN  /\ initErr' = e
         /\ IF e # NoErr
              THEN /\ rt' = ResolveCleanup(k)
                   /\ Goto(t, "init_end")
                   /\ UNCHANGED << ctxs, globalCtx >>
              ELSE /\ ctxs' = [ctxs EXCEPT ![k] = [runtime |-> TRUE,
                                 module |-> TRUE, funcs |-> Names]]
                   /\ globalCtx' = k
                   /\ Goto(t, "init_consts")
                   /\ UNCHANGED rt
  /\ UNCHANGED << binary, once, nInits, bodyDone, heap, handles, loc, raced, faults, shadow, crashed, nCloses, badFree, stateFrees,
                  relCalls >>

\* The body, third part: loadOpusConstants.  mustReadInt32Constant ends the
\* process with log.Fatalf when a getter traps or returns a bad address.
InitConsts(t) ==
  /\ Running
  /\ pc[t] = "init_consts"
  /\ IF binary.consts
       THEN Goto(t, "init_end") /\ UNCHANGED crashed
       ELSE crashed' = "fatal" /\ UNCHANGED pc
  /\ UNCHANGED << binary, once, initErr, globalCtx, nInits, rt, ctxs, bodyDone,
                  heap, handles, loc, raced, faults, shadow, nCloses, badFree,
                  stateFrees, relCalls >>

\* What the end of Do can do: mark the Once done; when CloseWasmContext has
\* overwritten the Once under the running body, the unlock of the fresh
\* mutex may instead end the process.
OnceEndOutcomes == IF once = "running" THEN {"done"} ELSE {"done", "fatal"}

InitEnd(t) ==
  /\ Running
  /\ pc[t] = "init_end"
  /\ \E o \in OnceEndOutcomes :
       IF o = "done"
         THEN once' = "done" /\ UNCHANGED crashed
         ELSE crashed' = "fatal" /\ UNCHANGED once
  /\ bodyDone' = TRUE
  /\ Goto(t, "gwc_ret")
  /\ UNCHANGED << binary, initErr, globalCtx, nInits, rt, ctxs, heap, handles,
                  loc, raced, faults, shadow, nCloses, badFree, stateFrees,
                  relCalls >>

\* Where a handler goes once GetWasmContext has returned to it.
AfterGwc(op, e) ==
  IF op \in {"NewEncoder", "NewDecoder"} /\ e = NoErr THEN "ctor_make"
  ELSE IF op = "Error" THEN "strerror"
  ELSE "done"

\* GetWasmContext after initWasm: the error initWasm returned, wrapped, or
\* globalWasmContext with a nil error.
GwcReturn(t) ==
  /\ Running
  /\ pc[t] = "gwc_ret"
  /\ LET e == IF initErr # NoErr THEN WrapInit(initErr) ELSE NoErr
         c == IF initErr # NoErr THEN 0 ELSE globalCtx
     IN  /\ SetLoc(t, [loc[t] EXCEPT !.wctx = c, !.err = e])
         /\ Goto(t, AfterGwc(loc[t].op, e))
  /\ UNCHANGED << binary, once, initErr, globalCtx, nInits, rt, ctxs, bodyDone,
                  heap, handles, raced, faults, shadow, crashed, nCloses, badFree, stateFrees, relCalls >>

envVars   == << binary, faults >>
onceVars  == << once, nInits, bodyDone >>
ghostVars == << badFree, stateFrees, relCalls, shadow >>

\* ---------------------------------------------------------- CloseWasmContext
\* if globalWasmContext != nil && globalWasmContext.runtime != nil
ClosePasses == globalCtx # 0 /\ ctxs[globalCtx].runtime

\* val records whether the call went on to close the runtime.
CloseCheck(t) ==
  /\ Running
  /\ pc[t] = "close_check"
  /\ IF ClosePasses
       THEN Goto(t, "close_rt") /\ nCloses' = nCloses + 1
       ELSE Goto(t, "done") /\ UNCHANGED nCloses
  /\ SetLoc(t, [loc[t] EXCEPT !.val = IF ClosePasses THEN 1 ELSE 0])
  /\ UNCHANGED << envVars, onceVars, initErr, globalCtx, rt, ctxs, heap,
                  handles, raced, crashed, ghostVars >>

\* err := globalWasmContext.runtime.Close(ctx).  The global and the field are
\* read again: a nil one ends the process with a nil dereference.
CloseRuntime(t) ==
  /\ Running
  /\ pc[t] = "close_rt"
  /\ IF ClosePasses
       THEN /\ rt' = [rt EXCEPT ![globalCtx] = "closed"]
            /\ Goto(t, "close_clear")
            /\ UNCHANGED crashed
       ELSE /\ crashed' = "panic"
            /\ UNCHANGED << rt, pc >>
  /\ UNCHANGED << envVars, onceVars, initErr, globalCtx, ctxs, heap, handles,
                  loc, raced, nCloses, ghostVars >>

\* runtime = nil, module = nil, functions = WasmFunctions{}: written through
\* the global pointer, so into the object every handle still references.
ClearedKeepsFunctions == [NilCtx EXCEPT !.funcs = Names]
ClearedCtx == NilCtx

CloseClear(t) ==
  /\ Running
  /\ pc[t] = "close_clear"
  /\ IF globalCtx # 0
       THEN /\ ctxs' = [ctxs EXCEPT ![globalCtx] = ClearedCtx]
            /\ Goto(t, "close_global")
            /\ UNCHANGED crashed
       ELSE /\ crashed' = "panic"
            /\ UNCHANGED << ctxs, pc >>
  /\ UNCHANGED << envVars, onceVars, initErr, globalCtx, rt, heap, handles,
                  loc, raced, nCloses, ghostVars >>

\* globalWasmContext = nil
CloseGlobal(t) ==
  /\ Running
  /\ pc[t] = "close_global"
  /\ globalCtx' = 0
  /\ Goto(t, "close_once")
  /\ UNCHANGED << envVars, onceVars, initErr, rt, ctxs, heap, handles, loc,
                  raced, crashed, nCloses, ghostVars >>

\* wasmInitOnce = sync.Once{}
OnceKept == once
OnceReset == "fresh"

CloseOnce(t) ==
  /\ Running
  /\ pc[t] = "close_once"
  /\ once' = OnceReset
  /\ Goto(t, "close_err")
  /\ UNCHANGED << envVars, nInits, bodyDone, initErr, globalCtx, rt, ctxs,
                  heap, handles, loc, raced, crashed, nCloses, ghostVars >>

\* wasmInitErr = nil; return err
CloseErr(t) ==
  /\ Running
  /\ pc[t] = "close_err"
  /\ initErr' = NoErr
  /\ Goto(t, "done")
  /\ UNCHANGED << envVars, onceVars, globalCtx, rt, ctxs, heap, handles, loc,
                  raced, crashed, nCloses, ghostVars >>

\* ------------------------------------------------------- sandbox primitives
Fn(c, f) == c # 0 /\ f \in ctxs[c].funcs     \* the cached function is not nil
Open(c)  == rt[c] = "open"

\* One entry of a handler's record of what it asked of the sandbox.
Ev(fn, args, res, failed) ==
  [fn |-> fn, args |-> args, res |-> res, failed |-> failed]
Logged(t, e) == Append(loc[t].log, e)

\* A goroutine at one of these places is inside a codec entry.
InCallPcs == {"ret"}

\* A sandbox call of t overlaps the codec call another goroutine is inside,
\* on the same instance: a data race on its linear memory, after which what
\* the instance computes is undefined.
Overlaps(t, c) ==
  \E u \in Tasks \ {t} : pc[u] \in InCallPcs /\ loc[u].wctx = c
RacedBy(t, c) == IF Overlaps(t, c) THEN raced \cup {c} ELSE raced

\* Whether api.Function.Call returns an error: always on a closed runtime,
\* and by a trap when the sandbox may fail.
CallFails(c) ==
  IF ~Open(c) THEN {TRUE} ELSE IF faults THEN {FALSE, TRUE} ELSE {FALSE}

\* What malloc returns: the lowest free address, NULL when there is none or
\* when the allocator fails.
LowestFree(c) ==
  LET free == Ptrs \ Live(c)
  IN  IF free = {} THEN 0 ELSE CHOOSE p \in free : \A q \in free : p <= q
MallocResults(c) == IF faults THEN {LowestFree(c), 0} ELSE {LowestFree(c)}

\* wasmContext.freeMemory: nothing for NULL, an (ignored) error when the
\* cached free is nil or the call fails, else the sandbox frees the block.
FreeCalled(c, p) == p # 0 /\ Fn(c, "free")
FreeRuns(c, p)   == FreeCalled(c, p) /\ Open(c)
HeapAfterFree(c, p) ==
  IF FreeRuns(c, p) THEN [heap EXCEPT ![c][p] = FreeCell] ELSE heap
\* A free goes wrong when the address holds no live allocation, or one made
\* for another handle.
BadAfterFree(c, p, h) ==
  badFree \/ (FreeRuns(c, p) /\ (heap[c][p].kind = "free"
                                   \/ heap[c][p].owner # h))
FreeLog(t, c, p) ==
  IF FreeCalled(c, p) THEN Logged(t, Ev("free", << p >>, 0, ~Open(c)))
  ELSE loc[t].log

\* ------------------------------------------------- NewEncoder / NewDecoder
KindOf(op) == IF op = "NewEncoder" THEN "enc" ELSE "dec"
SizeFn(k)  == IF k = "enc" THEN "opus_encoder_get_size"
              ELSE "opus_decoder_get_size"
InitFn(k)  == IF k = "enc" THEN "opus_encoder_init" ELSE "opus_decoder_init"
InitCodes  == IF faults THEN {OPUS_OK, OPUS_BAD_ARG} ELSE {OPUS_OK}

\* Why init returns before its first sandbox call, or NoErr.
CtorPrecheckAnyChannels(c, k, ch) ==
  IF c = 0 \/ ~ctxs[c].module THEN ProtoErr("no context")
  ELSE IF ~Fn(c, SizeFn(k)) THEN ProtoErr("no get_size")
  ELSE NoErr
CtorPrecheck(c, k, ch) ==
  IF ch # 1 /\ ch # 2 THEN InputErr("channels")
  ELSE IF c = 0 \/ ~ctxs[c].module THEN ProtoErr("no context")
  ELSE IF ~Fn(c, SizeFn(k)) THEN ProtoErr("no get_size")
  ELSE NoErr

\* enc := &Encoder{wctx, channels}; init up to the get_size call.
CtorMake(t) ==
  /\ Running
  /\ pc[t] = "ctor_make"
  /\ LET h  == loc[t].h
         c  == loc[t].wctx
         k  == KindOf(loc[t].op)
         ch == loc[t].args.ch
         e  == CtorPrecheck(c, k, ch)
     IN  /\ handles' = [handles EXCEPT ![h] = [state |-> "new", kind |-> k,
                           wctx |-> c, ptr |-> 0, channels |-> ch,
                           maker |-> t]]
         /\ IF e # NoErr
              THEN /\ SetLoc(t, [loc[t] EXCEPT !.err = e])
                   /\ Goto(t, "done")
                   /\ UNCHANGED raced
              ELSE \E failed \in CallFails(c) :
                   /\ SetLoc(t, [loc[t] EXCEPT
                        !.err = IF failed THEN ProtoErr("get_size failed")
                                ELSE NoErr,
                        !.log = Logged(t, Ev(SizeFn(k), << ch >>, 1, failed))])
                   /\ Goto(t, IF failed THEN "done" ELSE "ctor_malloc")
                   /\ raced' = RacedBy(t, c)
  /\ UNCHANGED << envVars, onceVars, initErr, globalCtx, rt, ctxs, heap,
                  crashed, nCloses, ghostVars >>

\* Malloc.Call(size); encoderPtr = result.
CtorMalloc(t) ==
  /\ Running
  /\ pc[t] = "ctor_malloc"
  /\ LET h == loc[t].h
         c == loc[t].wctx
         k == KindOf(loc[t].op)
     IN  IF ~Fn(c, "malloc")
           THEN /\ SetLoc(t, [loc[t] EXCEPT !.err = ProtoErr("no malloc")])
                /\ Goto(t, "done")
                /\ UNCHANGED << heap, handles, raced >>
           ELSE \E failed \in CallFails(c), r \in MallocResults(c) :
                LET p == IF failed THEN 0 ELSE r IN
                /\ SetLoc(t, [loc[t] EXCEPT
                     !.err = IF failed THEN ProtoErr("malloc failed")
                             ELSE IF p = 0 THEN ProtoErr("malloc NULL")
                             ELSE NoErr,
                     !.log = Logged(t, Ev("malloc", << 1 >>, p, failed))])
                /\ heap' = IF p = 0 THEN heap
                           ELSE [heap EXCEPT ![c][p] =
                                   [kind |-> k, val |-> 0, owner |-> h]]
                /\ handles' = [handles EXCEPT ![h].ptr = p]
                /\ Goto(t, IF p = 0 THEN "done" ELSE "ctor_init")
                /\ raced' = RacedBy(t, c)
  /\ UNCHANGED << envVars, onceVars, initErr, globalCtx, rt, ctxs, crashed,
                  nCloses, ghostVars >>

\* opus_encoder_init / opus_decoder_init; a nil entry, a failed call and a
\* non-OK code all go to the cleanup.
InitFailureReturns == "done"
AfterInitFailure == "ctor_free"

\* return Error(int(errno))
InitCodeAsProto(code) == ProtoErr("init failed")
InitCodeErr(code) == CodecErr(code)

CtorInit(t) ==
  /\ Running
  /\ pc[t] = "ctor_init"
  /\ LET h == loc[t].h
         c == loc[t].wctx
         k == KindOf(loc[t].op)
     IN  IF ~Fn(c, InitFn(k))
           THEN /\ SetLoc(t, [loc[t] EXCEPT !.err = ProtoErr("no init")])
                /\ Goto(t, AfterInitFailure)
                /\ UNCHANGED << handles, raced >>
           ELSE \E failed \in CallFails(c), code \in InitCodes :
                LET e == IF failed THEN ProtoErr("init failed")
                         ELSE IF code # OPUS_OK THEN InitCodeErr(code)
                         ELSE NoErr
                IN
                /\ SetLoc(t, [loc[t] EXCEPT !.err = e,
                     !.log = Logged(t, Ev(InitFn(k), << handles[h].ptr >>,
                                          code, failed))])
                /\ handles' = IF e = NoErr
                                THEN [handles EXCEPT ![h].state = "live"]
                                ELSE handles
                /\ Goto(t, IF e = NoErr THEN "done" ELSE AfterInitFailure)
                /\ raced' = RacedBy(t, c)
  /\ UNCHANGED << envVars, onceVars, initErr, globalCtx, rt, ctxs, heap,
                  crashed, nCloses, ghostVars >>

\* The cleanup of a failed init: wctx.freeMemory(ptr); ptr = 0; return err.
CtorFree(t) ==
  /\ Running
  /\ pc[t] = "ctor_free"
  /\ LET h == loc[t].h
         c == loc[t].wctx
         p == handles[h].ptr
     IN  /\ heap' = HeapAfterFree(c, p)
         /\ badFree' = BadAfterFree(c, p, h)
         /\ stateFrees' = [stateFrees EXCEPT ![h] =
                             @ + (IF FreeCalled(c, p) THEN 1 ELSE 0)]
         /\ SetLoc(t, [loc[t] EXCEPT !.log = FreeLog(t, c, p)])
         /\ handles' = [handles EXCEPT ![h].ptr = 0]
         /\ raced' = IF FreeCalled(c, p) THEN RacedBy(t, c) ELSE raced
  /\ Goto(t, "done")
  /\ UNCHANGED << envVars, onceVars, initErr, globalCtx, rt, ctxs, crashed,
                  nCloses, relCalls, shadow >>

\* ------------------------------------------------- operations on a handle
EncodeOps == {"Encode", "EncodeFloat32"}
PlcOps    == {"DecodePLC", "DecodePLCFloat32"}
DecodeOps == {"Decode", "DecodeFloat32", "DecodeFEC", "DecodeFECFloat32"}
               \cup PlcOps
GetOps    == {"Bitrate", "LastPacketDuration"}
SetOps    == {"SetBitrate", "Reset"}
CodecOps  == EncodeOps \cup DecodeOps
HandleOps == CodecOps \cup GetOps \cup SetOps
OpsOf(k)  == IF k = "enc" THEN EncodeOps \cup {"Bitrate", "SetBitrate", "Reset"}
             ELSE DecodeOps \cup {"LastPacketDuration"}

\* The cached entry an operation calls.
OpFn(op) ==
  CASE op = "Encode" -> "opus_encode"
    [] op = "EncodeFloat32" -> "opus_encode_float"
    [] op \in {"Decode", "DecodeFEC", "DecodePLC"} -> "opus_decode"
    [] op \in {"DecodeFloat32", "DecodeFECFloat32", "DecodePLCFloat32"} ->
         "opus_decode_float"
    [] op = "Bitrate" -> "bridge_encoder_get_bitrate"
    [] op = "SetBitrate" -> "bridge_encoder_set_bitrate"
    [] op = "Reset" -> "bridge_encoder_reset_state"
    [] op = "LastPacketDuration" -> "bridge_decoder_get_last_packet_duration"

\* Why an operation returns before it touches the sandbox, or NoErr.  For an
\* encode a.len is len(pcm) and a.cap is len(data); for a decode a.len is
\* len(data) and a.cap is the length and capacity of pcm.
NeverNotMultiple(n, ch) == FALSE
NotMultiple(n, ch) == n % ch # 0

EntryErr(op, hd, a) ==
  IF op \in EncodeOps THEN
       IF hd.ptr = 0 THEN Uninit
       ELSE IF a.len = 0 THEN InputErr("no PCM data")
       ELSE IF a.cap = 0 THEN InputErr("no target buffer")
       ELSE IF NotMultiple(a.len, hd.channels)
         THEN InputErr("multiple of channels")
       ELSE IF hd.wctx = 0 THEN Uninit
       ELSE NoErr
  ELSE IF op \in DecodeOps THEN
       IF hd.wctx = 0 THEN Uninit
       ELSE IF a.cap = 0 THEN InputErr("target PCM buffer empty")
       ELSE IF NotMultiple(a.cap, hd.channels)
         THEN InputErr("multiple of channels")
       ELSE NoErr
  ELSE IF hd.ptr = 0 \/ hd.wctx = 0 THEN Uninit
       ELSE IF ~Fn(hd.wctx, OpFn(op)) THEN ProtoErr("function is nil")
       ELSE NoErr

\* Bitrate and SetBitrate evaluate enc.wctx.functions before any check.
DerefsFirst(op) == op \in {"Bitrate", "SetBitrate"}

OpCheck(t) ==
  /\ Running
  /\ pc[t] = "op_check"
  /\ LET op == loc[t].op
         hd == handles[loc[t].h]
         e  == EntryErr(op, hd, loc[t].args)
     IN  IF DerefsFirst(op) /\ hd.wctx = 0
           THEN crashed' = "panic" /\ UNCHANGED << pc, loc >>
           ELSE /\ SetLoc(t, [loc[t] EXCEPT !.err = e])
                /\ Goto(t, IF e # NoErr THEN "done"
                           ELSE IF op \in SetOps THEN "call" ELSE "scratch1")
                /\ UNCHANGED crashed
  /\ UNCHANGED << envVars, onceVars, initErr, globalCtx, rt, ctxs, heap,
                  handles, raced, nCloses, ghostVars >>

\* defer wctx.freeMemory(ctx, p): deferred calls run last registered first.
DeferFreeTwice(d, p) == << p, p >> \o d
DeferNothing(d, p) == d
DeferFree(d, p) == << p >> \o d

\* Memory().Write and Memory().Read report a range outside linear memory.
MemOutcomes == IF faults THEN {TRUE, FALSE} ELSE {TRUE}

\* Whether decodeInternal copies an input packet into the sandbox.
HasInput(op, a) == op \notin PlcOps /\ a.len > 0

\* A handler that calls the entry as soon as the first block is in place.
CallsAfterFirst(where, op, hd, a) == "call"

\* Where a handler goes once a scratch block is in place.  For a decode the
\* first block is the PCM output; decodeInternal then checks the handle and
\* writes the packet, if there is one.
AfterScratch(where, op, hd, a) ==
  IF where = "scratch2" \/ op \in GetOps THEN "call"
  ELSE IF op \in EncodeOps THEN "scratch2"
  ELSE IF hd.ptr = 0 \/ hd.wctx = 0 THEN "unwind"
  ELSE IF HasInput(op, a) THEN "scratch2" ELSE "call"

\* Where a handler goes when the allocator has returned NULL: it returns the
\* error, through its deferred frees.
NullIgnored == "call"
AfterNull == "unwind"

\* The bytes of an element: int16 or float32.
FloatOps == {"EncodeFloat32", "DecodeFloat32", "DecodeFECFloat32",
             "DecodePLCFloat32"}
ElemBytes(op) == IF op \in FloatOps THEN 4 ELSE 2

\* A block sized for an int64.
ScratchSizeInt64(where, op, a) == 8

\* The bytes asked of malloc: the PCM or packet to copy in, a block of
\* len(data) or cap(pcm) elements for the output, 4 for an int32.
ScratchSize(where, op, a) ==
  IF op \in GetOps THEN 4
  ELSE IF op \in EncodeOps
    THEN (IF where = "scratch1" THEN a.len * ElemBytes(op) ELSE a.cap)
  ELSE (IF where = "scratch1" THEN a.cap * ElemBytes(op) ELSE a.len)

\* wasmContext.writeToMemory, and allocateInt32Ptr for the control getters:
\* malloc, then (writeToMemory only) the copy into linear memory, with a free
\* of the block when the copy fails.
Scratch(t) ==
  /\ Running
  /\ pc[t] \in {"scratch1", "scratch2"}
  /\ LET op == loc[t].op
         h  == loc[t].h
         c  == loc[t].wctx
         copies == op \notin GetOps
     IN
     IF ~Fn(c, "malloc")
       THEN /\ SetLoc(t, [loc[t] EXCEPT !.err = ProtoErr("malloc is nil")])
            /\ Goto(t, "unwind")
            /\ UNCHANGED << heap, raced, crashed >>
       ELSE
       \E failed \in CallFails(c), r \in MallocResults(c), wrote \in MemOutcomes :
         LET q == IF failed THEN 0 ELSE r
             ev == Logged(t, Ev("malloc",
                                << ScratchSize(pc[t], op, loc[t].args) >>,
                                q, failed))
         IN
         IF q = 0
           THEN /\ SetLoc(t, [loc[t] EXCEPT !.log = ev,
                      !.err = IF failed THEN ProtoErr("malloc failed")
                              ELSE ProtoErr("malloc returned NULL")])
                /\ Goto(t, IF failed THEN "unwind" ELSE AfterNull)
                /\ raced' = RacedBy(t, c)
                /\ UNCHANGED << heap, crashed >>
         ELSE IF copies /\ ~ctxs[c].module
           THEN /\ crashed' = "panic"
                /\ UNCHANGED << heap, raced, pc, loc >>
         ELSE IF copies /\ ~wrote
           THEN /\ SetLoc(t, [loc[t] EXCEPT
                      !.log = IF Fn(c, "free")
                                THEN Append(ev, Ev("free", << q >>, 0, FALSE))
                                ELSE ev,
                      !.err = ProtoErr("memory write failed")])
                /\ heap' = IF Fn(c, "free") THEN heap
                           ELSE [heap EXCEPT ![c][q] =
                                   [kind |-> "scratch", val |-> 0, owner |-> h]]
                /\ Goto(t, "unwind")
                /\ raced' = RacedBy(t, c)
                /\ UNCHANGED crashed
         ELSE LET next == AfterScratch(pc[t], op, handles[h], loc[t].args) IN
                /\ SetLoc(t, [loc[t] EXCEPT
                      !.log = ev,
                      !.p1 = IF pc[t] = "scratch1" THEN q ELSE @,
                      !.p2 = IF pc[t] = "scratch2" THEN q ELSE @,
                      !.defers = DeferFree(@, q),
                      !.err = IF next = "unwind" THEN Uninit ELSE NoErr])
                /\ heap' = [heap EXCEPT ![c][q] =
                              [kind |-> "scratch", val |-> 0, owner |-> h]]
                /\ Goto(t, next)
                /\ raced' = RacedBy(t, c)
                /\ UNCHANGED crashed
  /\ UNCHANGED << envVars, onceVars, initErr, globalCtx, rt, ctxs, handles,
                  nCloses, ghostVars >>

\* The deferred frees of the handler, then its return.
Unwind(t) ==
  /\ Running
  /\ pc[t] = "unwind"
  /\ LET c == loc[t].wctx
         d == loc[t].defers
     IN  IF d = << >>
           THEN /\ Goto(t, "done")
                /\ UNCHANGED << loc, heap, raced, badFree >>
           ELSE /\ heap' = HeapAfterFree(c, Head(d))
                /\ badFree' = BadAfterFree(c, Head(d), loc[t].h)
                /\ raced' = IF FreeCalled(c, Head(d)) THEN RacedBy(t, c)
                            ELSE raced
                /\ SetLoc(t, [loc[t] EXCEPT !.log = FreeLog(t, c, Head(d)),
                                            !.defers = Tail(d)])
                /\ Goto(t, IF Tail(d) = << >> THEN "done" ELSE "unwind")
  /\ UNCHANGED << envVars, onceVars, initErr, globalCtx, rt, ctxs, handles,
                  crashed, nCloses, stateFrees, relCalls, shadow >>

\* Values a control setting or a sample count can take.
Values == 0..MaxLen

StateVal(c, p) == IF p \in Ptrs THEN heap[c][p].val ELSE 0

\* decode_fec, the last argument of the decode entries.
FecOps == {"DecodeFEC", "DecodeFECFloat32"}
FecFlag(op) == IF op \in FecOps THEN 1 ELSE 0

\* The length decodeInternal passes: len(data), 0 for the nil slice of the
\* loss-concealment methods.
DataLen(op, a) == IF op \in PlcOps THEN 0 ELSE a.len

\* The arguments of the call, in the order of the entry's parameters.
CallArgs(op, hd, l) ==
  IF op \in EncodeOps
    THEN << hd.ptr, l.p1, l.args.len \div hd.channels, l.p2, l.args.cap >>
  ELSE IF op \in DecodeOps
    THEN << hd.ptr, l.p2, DataLen(op, l.args), l.p1,
            l.args.cap \div hd.channels, FecFlag(op) >>
  ELSE IF op \in GetOps THEN << hd.ptr, l.p1 >>
  ELSE IF op = "SetBitrate" THEN << hd.ptr, l.args.v >>
  ELSE << hd.ptr >>

\* The call of the codec or control entry: the handler is inside the sandbox
\* until Return.  The codec entries are looked up here; the control entries
\* were looked up before the first check.
Call(t) ==
  /\ Running
  /\ pc[t] = "call"
  /\ LET op == loc[t].op
         c  == loc[t].wctx
     IN  IF op \in CodecOps /\ ~Fn(c, OpFn(op))
           THEN /\ SetLoc(t, [loc[t] EXCEPT !.err = ProtoErr("entry is nil")])
                /\ Goto(t, "unwind")
                /\ UNCHANGED raced
           ELSE /\ SetLoc(t, [loc[t] EXCEPT !.log =
                      Logged(t, Ev(OpFn(op), CallArgs(op, handles[loc[t].h],
                                                      loc[t]),
                                   0, ~Open(c)))])
                /\ Goto(t, "ret")
                /\ raced' = RacedBy(t, c)
  /\ UNCHANGED << envVars, onceVars, initErr, globalCtx, rt, ctxs, heap,
                  handles, crashed, nCloses, ghostVars >>

\* The decode entry refuses a packet it is given and cannot parse; with a
\* null input it has no packet to refuse and conceals the loss.
Rejects(op, a, data) == op \in DecodeOps /\ data # 0 /\ a.bad

\* 2^30, a count an entry can report in its int32 result.
TwoTo30 == 1073741824

\* bytesToRead := uint32(samplesDecoded * dec.channels * 2);
\* bytesToRead > uint32(pcmAllocSizeBytes): the product of the count n and
\* the k bytes of a sample of all channels is cut to 32 bits before it is
\* compared.  (n * k) % 2^32 is (n % (2^32 / k)) * k, and n is below 2^31.
TooMany(n, k, alloc) ==
  LET r == IF k = 2 THEN n ELSE n % (TwoTo30 \div (k \div 4))
  IN  r > alloc \div k

\* The byte the codec leaves at offset j of its output.
CodecByte(j) == j + 1

\* An element as its bytes, the most significant first: src[i*2] is the low
\* byte, src[i*2+1] the high one (and so on for the four of a float32).
FromBigEndian(bytes) == bytes
FromLittleEndian(bytes) ==
  [j \in 1..Len(bytes) |-> bytes[Len(bytes) + 1 - j]]

\* copy(data, encodedResult): the first n bytes of the output scratch over
\* the first n of data.
CopiedAll(dst, n) == [i \in 1..Len(dst) |-> << CodecByte(i - 1) >>]
Copied(dst, n) ==
  [i \in 1..Len(dst) |-> IF i <= n THEN << CodecByte(i - 1) >> ELSE dst[i]]

\* int16SliceFromByteSlice(decodedBytes, pcm[:m]) and its float32 twin.
Converted(dst, m, w) ==
  [i \in 1..Len(dst) |->
     IF i <= m
       THEN FromLittleEndian([j \in 1..w |-> CodecByte((i - 1) * w + j - 1)])
       ELSE dst[i]]

\* How a call can end: a result the handler accepts, a failed call, a
\* negative code, a count above the capacity or far above it, a read-back
\* out of range.
Outcomes(op, c, a, data) ==
  IF ~Open(c) THEN {"trap"}
  ELSE IF ~faults THEN (IF Rejects(op, a, data) THEN {"code"} ELSE {"ok"})
  ELSE {"ok", "trap", "code"}
         \cup (IF op \in CodecOps THEN {"over", "huge"} ELSE {})
         \cup (IF op \in CodecOps \cup GetOps THEN {"noread"} ELSE {})

\* The runtime was open when the entry was called and is closed now: the
\* call may have returned before CloseWasmContext closed it.
ReturnedBeforeClose(t, c) ==
  IF ~Open(c) /\ ~loc[t].log[Len(loc[t].log)].failed
    THEN (IF loc[t].op \in CodecOps \cup GetOps THEN {"ok", "noread"}
          ELSE {"ok"})
    ELSE {}

\* fmt.Errorf("%s call failed: %w", ...) for a call that trapped.
TrapAsCode == CodecErr(OPUS_BAD_ARG)
TrapErr == ProtoErr("call failed")

\* The codes an entry reports a failure with.
NegCodes == {OPUS_BAD_ARG, OPUS_INVALID_PACKET}

\* return 0, Error(int(encodedBytes))
SurfacedAsBadArg(code) == OPUS_BAD_ARG
Surfaced(code) == code

OutcomeErr(op, o, code) ==
  CASE o = "trap"   -> TrapErr
    [] o = "code"   -> CodecErr(Surfaced(code))
    [] o = "over"   -> ProtoErr("more than the buffer holds")
    [] o = "noread" -> ProtoErr("read from memory failed")
    [] OTHER        -> NoErr

\* What the set entry leaves in the state block for the value it is given.
StoredNothing(v) == 0
Stored(v) == v

\* The call returns: decodeInternal's deferred free of the packet, the checks
\* of the result (ret is what the entry returned), the read-back and the copy of out elements into the caller's
\* buffer.  A successful SetBitrate has stored the value in the state block.
Return(t) ==
  /\ Running
  /\ pc[t] = "ret"
  /\ LET op == loc[t].op
         h  == loc[t].h
         c  == loc[t].wctx
         hd == handles[h]
         a  == loc[t].args
         limit == IF op \in EncodeOps THEN a.cap
                  ELSE IF hd.channels = 0 THEN 0 ELSE a.cap \div hd.channels
         inner == op \in DecodeOps /\ loc[t].p2 # 0
         reads == op \in CodecOps \cup GetOps
     IN
     \E o \in Outcomes(op, c, a, loc[t].p2) \cup ReturnedBeforeClose(t, c),
        n \in Values,
        code \in (IF ~faults /\ Rejects(op, a, loc[t].p2)
                   THEN {OPUS_INVALID_PACKET} ELSE NegCodes) :
       LET k == hd.channels * ElemBytes(op)
           wraps == /\ o = "huge"
                    /\ op \in DecodeOps
                    /\ ~TooMany(TwoTo30, k, a.cap * ElemBytes(op))
           e == OutcomeErr(op, IF o = "huge" THEN "over" ELSE o, code)
           raw == CASE o = "code" -> code
                    [] o = "over" -> limit + 1
                    [] o = "huge" -> TwoTo30
                    [] o = "trap" -> 0
                    [] OTHER      -> IF op \in CodecOps THEN Min(n, limit) ELSE 0
           v == IF e # NoErr THEN 0
                ELSE IF op \in CodecOps THEN Min(n, limit)
                ELSE IF op \in GetOps
                  THEN (IF c \in raced THEN n ELSE StateVal(c, hd.ptr))
                ELSE 0
           stores == e = NoErr /\ hd.ptr \in Ptrs /\ op = "SetBitrate"
           stored == Stored(a.v)
           h1 == IF inner THEN HeapAfterFree(c, loc[t].p2) ELSE heap
       IN
       IF (reads /\ o \in {"ok", "noread"} /\ ~ctxs[c].module) \/ wraps
         THEN /\ crashed' = "panic"
              /\ UNCHANGED << pc, loc, heap, badFree, shadow >>
         ELSE /\ SetLoc(t, [loc[t] EXCEPT
                    !.err = e, !.val = v, !.ret = raw,
                    !.trapped = (o = "trap"),
                    !.out = IF op \in EncodeOps THEN v
                            ELSE IF op \in DecodeOps THEN v * hd.channels
                            ELSE 0,
                    !.dst = IF e # NoErr THEN @
                            ELSE IF op \in EncodeOps THEN Copied(@, v)
                            ELSE IF op \in DecodeOps
                              THEN Converted(@, v * hd.channels, ElemBytes(op))
                            ELSE @,
                    !.log = IF inner THEN FreeLog(t, c, loc[t].p2) ELSE @,
                    !.defers = IF inner THEN Tail(@) ELSE @])
              /\ heap' = IF stores THEN [h1 EXCEPT ![c][hd.ptr].val = stored]
                         ELSE h1
              /\ badFree' = IF inner THEN BadAfterFree(c, loc[t].p2, h)
                            ELSE badFree
              /\ shadow' = IF stores THEN [shadow EXCEPT ![h] = a.v]
                           ELSE shadow
              /\ Goto(t, "unwind")
              /\ UNCHANGED crashed
  /\ UNCHANGED << envVars, onceVars, initErr, globalCtx, rt, ctxs, handles,
                  raced, nCloses, stateFrees, relCalls >>

\* ------------------------------------------------------------ freeMemory
\* Code of the package calls freeMemory on the process-wide context with
\* some address.
StartFree(t, p) ==
  /\ Running
  /\ pc[t] = "idle"
  /\ globalCtx # 0
  /\ SetLoc(t, [NoLoc EXCEPT !.op = "freeMemory", !.wctx = globalCtx,
                             !.p1 = p, !.before = Live(globalCtx)])
  /\ Goto(t, "free_mem")
  /\ UNCHANGED << envVars, onceVars, initErr, globalCtx, rt, ctxs, heap,
                  handles, raced, crashed, nCloses, ghostVars >>

\* wasmContext.freeMemory: nil for NULL, an error for a nil free, else the
\* call and its error.  Nothing records which addresses are allocated: what
\* the sandbox's allocator does with an address it never returned is
\* undefined, it may trap or return.
FreeMemory(t) ==
  /\ Running
  /\ pc[t] = "free_mem"
  /\ LET c == loc[t].wctx
         p == loc[t].p1
     IN
     IF p = 0
       THEN /\ SetLoc(t, [loc[t] EXCEPT !.err = NoErr])
            /\ UNCHANGED << heap, badFree, raced >>
     ELSE IF ~Fn(c, "free")
       THEN /\ SetLoc(t, [loc[t] EXCEPT !.err = ProtoErr("free is nil")])
            /\ UNCHANGED << heap, badFree, raced >>
     ELSE \E failed \in (IF Open(c) /\ heap[c][p].kind = "free"
                           THEN {TRUE, FALSE} ELSE CallFails(c)) :
            /\ SetLoc(t, [loc[t] EXCEPT
                  !.err = IF failed THEN ProtoErr("free call failed")
                          ELSE NoErr,
                  !.trapped = failed,
                  !.log = Logged(t, Ev("free", << p >>, 0, failed))])
            /\ heap' = IF failed THEN heap
                       ELSE [heap EXCEPT ![c][p] = FreeCell]
            /\ badFree' = (badFree \/ heap[c][p].kind = "free")
            /\ raced' = RacedBy(t, c)
  /\ Goto(t, "done")
  /\ UNCHANGED << envVars, onceVars, initErr, globalCtx, rt, ctxs, handles,
                  crashed, nCloses, stateFrees, relCalls, shadow >>

\* --------------------------------------------------------- Init, called again
\* A goroutine calls Decoder.Init (Encoder.init has the same first test) on a
\* handle a constructor has returned.
StartInit(t, h, ch) ==
  /\ Running
  /\ pc[t] = "idle"
  /\ handles[h].state = "live"
  /\ SetLoc(t, [NoLoc EXCEPT !.op = "Init", !.h = h,
                             !.wctx = handles[h].wctx, !.args.ch = ch,
                             !.before = Live(handles[h].wctx)])
  /\ Goto(t, "init_check")
  /\ UNCHANGED << envVars, onceVars, initErr, globalCtx, rt, ctxs, heap,
                  handles, raced, crashed, nCloses, ghostVars >>

\* if dec.decoderPtr != 0
NeverInitialized(hd) == FALSE
AlreadyInitialized(hd) == hd.ptr # 0

\* The first test of Init: an initialised handle is refused as it is; any
\* other goes on as in the constructor.
InitCheck(t) ==
  /\ Running
  /\ pc[t] = "init_check"
  /\ IF AlreadyInitialized(handles[loc[t].h])
       THEN /\ SetLoc(t, [loc[t] EXCEPT
                            !.err = InputErr("already initialized")])
            /\ Goto(t, "done")
       ELSE /\ Goto(t, "ctor_make")
            /\ UNCHANGED loc
  /\ UNCHANGED << envVars, onceVars, initErr, globalCtx, rt, ctxs, heap,
                  handles, raced, crashed, nCloses, ghostVars >>

\* ------------------------------------------------------------ writeToMemory
\* Code of the package calls writeToMemory on the process-wide context with
\* a slice of n bytes.
StartWrite(t, n) ==
  /\ Running
  /\ pc[t] = "idle"
  /\ globalCtx # 0
  /\ SetLoc(t, [NoLoc EXCEPT !.op = "writeToMemory", !.wctx = globalCtx,
                             !.args = [NoArgs EXCEPT !.len = n],
                             !.before = Live(globalCtx)])
  /\ Goto(t, "write_mem")
  /\ UNCHANGED << envVars, onceVars, initErr, globalCtx, rt, ctxs, heap,
                  handles, raced, crashed, nCloses, ghostVars >>

\* if byteCount > 0 { ... Memory().Write(ptr, data) ... }
WritesAlways(n) == TRUE
WritesBytes(n) == n > 0

\* wasmContext.writeToMemory as a whole: malloc of len(data) bytes, an error
\* for a failed call or for NULL when bytes were asked for, the copy when
\* there are bytes to copy, and the free of the block when the copy fails.
\* What malloc(0) returns is the allocator's choice: a block or NULL.
WriteToMemory(t) ==
  /\ Running
  /\ pc[t] = "write_mem"
  /\ LET c == loc[t].wctx
         n == loc[t].args.len
     IN
     IF ~Fn(c, "malloc")
       THEN /\ SetLoc(t, [loc[t] EXCEPT !.err = ProtoErr("malloc is nil")])
            /\ Goto(t, "done")
            /\ UNCHANGED << heap, raced, crashed >>
       ELSE
       \E failed \in CallFails(c),
          r \in (IF n = 0 THEN {LowestFree(c), 0} ELSE MallocResults(c)),
          wrote \in MemOutcomes :
         LET q  == IF failed THEN 0 ELSE r
             ev == Logged(t, Ev("malloc", << n >>, q, failed))
             wr == Append(ev, Ev("write", << q, n >>, 0, ~wrote))
             cell == [kind |-> "scratch", val |-> 0, owner |-> 0]
         IN
         IF failed \/ (q = 0 /\ n > 0)
           THEN /\ SetLoc(t, [loc[t] EXCEPT !.log = ev,
                      !.err = IF failed THEN ProtoErr("malloc failed")
                              ELSE ProtoErr("malloc returned NULL")])
                /\ Goto(t, "done")
                /\ raced' = RacedBy(t, c)
                /\ UNCHANGED << heap, crashed >>
         ELSE IF ~WritesBytes(n)
           THEN /\ SetLoc(t, [loc[t] EXCEPT !.log = ev, !.val = q,
                                            !.p1 = q, !.err = NoErr])
                /\ heap' = IF q = 0 THEN heap ELSE [heap EXCEPT ![c][q] = cell]
                /\ Goto(t, "done")
                /\ raced' = RacedBy(t, c)
                /\ UNCHANGED crashed
         ELSE IF ~ctxs[c].module
           THEN /\ crashed' = "panic"
                /\ UNCHANGED << heap, raced, pc, loc >>
         ELSE IF ~wrote
           THEN /\ SetLoc(t, [loc[t] EXCEPT
                      !.log = IF q # 0 /\ Fn(c, "free")
                                THEN Append(wr, Ev("free", << q >>, 0, FALSE))
                                ELSE wr,
                      !.err = ProtoErr("memory write failed")])
                /\ heap' = IF q = 0 \/ Fn(c, "free") THEN heap
                           ELSE [heap EXCEPT ![c][q] = cell]
                /\ Goto(t, "done")
                /\ raced' = RacedBy(t, c)
                /\ UNCHANGED crashed
         ELSE /\ SetLoc(t, [loc[t] EXCEPT !.log = wr, !.val = q, !.p1 = q,
                                          !.err = NoErr])
              /\ heap' = IF q = 0 THEN heap ELSE [heap EXCEPT ![c][q] = cell]
              /\ Goto(t, "done")
              /\ raced' = RacedBy(t, c)
              /\ UNCHANGED crashed
  /\ UNCHANGED << envVars, onceVars, initErr, globalCtx, rt, ctxs, handles,
                  nCloses, ghostVars >>

\* ------------------------------------------------------- sample marshalling
\* The int16 values callers put in their slices.
Samples == {-32768, -256, -1, 0, 255, 256, 32767}

\* int16SliceToByteSlice: b[i*2] = byte(v), b[i*2+1] = byte(v >> 8).
int16SliceToByteSlice(s) ==
  [k \in 1..(2 * Len(s)) |->
     LET v == s[(k + 1) \div 2]
     IN  IF k % 2 = 1 THEN v % 256 ELSE (v \div 256) % 256]

\* dest[i] = int16(src[i*2]) | (int16(src[i*2+1]) << 8): the shift keeps
\* the low 16 bits, as a signed number, and leaves the low byte 0, so the or
\* is a sum.
SampleNoSign(lo, hi) == hi * 256 + lo
Sample(lo, hi) == ((hi * 256 + 32768) % 65536) - 32768 + lo

\* int16SliceFromByteSlice: the error it returns and what dest holds then.
int16SliceFromByteSlice(src, dest) ==
  IF Len(src) % 2 # 0
    THEN [err |-> InputErr("not a multiple of 2"), dest |-> dest]
  ELSE IF Len(dest) * 2 < Len(src)
    THEN [err |-> InputErr("destination too small"), dest |-> dest]
  ELSE [err |-> NoErr,
        dest |-> [i \in 1..Len(dest) |->
                    IF i <= Len(src) \div 2
                      THEN Sample(src[2 * i - 1], src[2 * i])
                      ELSE dest[i]]]

\* A caller converts the samples s to bytes; it will hand the first n of
\* them back, with the slice d to fill.
ToBytes(t, s, d, n) ==
  /\ Running
  /\ pc[t] = "idle"
  /\ n <= 2 * Len(s)
  /\ SetLoc(t, [NoLoc EXCEPT !.op = "int16SliceToByteSlice", !.pcm = s,
                             !.bytes = int16SliceToByteSlice(s),
                             !.dst = d, !.dst0 = d, !.args.len = n])
  /\ Goto(t, "from_bytes")
  /\ UNCHANGED << envVars, onceVars, initErr, globalCtx, rt, ctxs, heap,
                  handles, raced, crashed, nCloses, ghostVars >>

\* The caller converts the bytes back.
FromBytes(t) ==
  /\ Running
  /\ pc[t] = "from_bytes"
  /\ LET r == int16SliceFromByteSlice(SubSeq(loc[t].bytes, 1, loc[t].args.len),
                                      loc[t].dst)
     IN  SetLoc(t, [loc[t] EXCEPT !.op = "int16SliceFromByteSlice",
                                  !.err = r.err, !.dst = r.dest])
  /\ Goto(t, "done")
  /\ UNCHANGED << envVars, onceVars, initErr, globalCtx, rt, ctxs, heap,
                  handles, raced, crashed, nCloses, ghostVars >>

\* ------------------------------------------------------------ the message
\* Error.Error() after its GetWasmContext: the placeholder for a failed
\* context; the lookup of opus_strerror in the module, by name; the call; the
\* read of the string.  Every failure gives a placeholder with the code.
ErrorString(t) ==
  /\ Running
  /\ pc[t] = "strerror"
  /\ LET c == loc[t].wctx IN
     IF loc[t].err # NoErr
       THEN /\ SetLoc(t, [loc[t] EXCEPT !.msg = "error getting WASM context"])
            /\ Goto(t, "done")
            /\ UNCHANGED << raced, crashed >>
     ELSE IF ~ctxs[c].module
       THEN /\ crashed' = "panic"
            /\ UNCHANGED << pc, loc, raced >>
     ELSE IF ~binary.strerror
       THEN /\ SetLoc(t, [loc[t] EXCEPT !.msg = "opus_strerror not available"])
            /\ Goto(t, "done")
            /\ UNCHANGED << raced, crashed >>
     ELSE \E failed \in CallFails(c), readable \in MemOutcomes :
            /\ SetLoc(t, [loc[t] EXCEPT
                  !.msg = IF failed THEN "failed calling opus_strerror"
                          ELSE IF ~readable THEN "failed reading error string"
                          ELSE "message",
                  !.trapped = failed,
                  !.log = Logged(t, Ev("opus_strerror", << loc[t].args.v >>,
                                       0, failed))])
            /\ Goto(t, "done")
            /\ raced' = RacedBy(t, c)
            /\ UNCHANGED crashed
  /\ UNCHANGED << envVars, onceVars, initErr, globalCtx, rt, ctxs, heap,
                  handles, nCloses, ghostVars >>

\* ------------------------------------------------------------ the finalizer
\* if e.encoderPtr != 0 && e.wctx != nil && e.wctx.functions.Free != nil
FinalizerSkips(hd) == FALSE
FinalizerIgnoresTeardown(hd) == hd.ptr # 0 /\ hd.wctx # 0
FinalizerFrees(hd) == hd.ptr # 0 /\ hd.wctx # 0 /\ Fn(hd.wctx, "free")
\* e.encoderPtr = 0 // Mark as freed
KeepsPtr(p) == p
MarkedFreed(p) == 0

\* The closure NewEncoder and NewDecoder register with runtime.SetFinalizer,
\* run for a handle no goroutine uses.
Finalize(h) ==
  /\ Running
  /\ handles[h].state \in {"live", "collected"}
  /\ relCalls[h] < MaxRelease
  /\ \A t \in Tasks : pc[t] = "idle"
  /\ LET hd == handles[h]
         c  == hd.wctx
         p  == hd.ptr
     IN  IF FinalizerFrees(hd)
           THEN /\ heap' = HeapAfterFree(c, p)
                /\ badFree' = BadAfterFree(c, p, h)
                /\ stateFrees' = [stateFrees EXCEPT ![h] = @ + 1]
                /\ handles' = [handles EXCEPT ![h].ptr = MarkedFreed(p),
                                              ![h].state = "collected"]
           ELSE /\ handles' = [handles EXCEPT ![h].state = "collected"]
                /\ UNCHANGED << heap, badFree, stateFrees >>
  /\ relCalls' = [relCalls EXCEPT ![h] = @ + 1]
  /\ UNCHANGED << envVars, onceVars, initErr, globalCtx, rt, ctxs, pc, loc,
                  raced, crashed, nCloses, shadow >>

\* ------------------------------------------------------ starting, returning
Unused == { h \in Handles : handles[h].state = "unused" }

\* A goroutine calls GetWasmContext.
StartGetWasmContext(t) ==
  /\ Running
  /\ pc[t] = "idle"
  /\ SetLoc(t, [NoLoc EXCEPT !.op = "GetWasmContext"])
  /\ Goto(t, "gwc_once")
  /\ UNCHANGED << envVars, onceVars, initErr, globalCtx, rt, ctxs, heap,
                  handles, raced, crashed, nCloses, ghostVars >>

\* A goroutine calls NewEncoder or NewDecoder with some channel count.
StartNew(t, op, ch) ==
  /\ Running
  /\ pc[t] = "idle"
  /\ Unused # {}
  /\ LET h == CHOOSE x \in Unused : \A y \in Unused : x <= y IN
     /\ handles' = [handles EXCEPT ![h].state = "new", ![h].maker = t]
     /\ SetLoc(t, [NoLoc EXCEPT !.op = op, !.h = h, !.args.ch = ch])
  /\ Goto(t, "gwc_once")
  /\ UNCHANGED << envVars, onceVars, initErr, globalCtx, rt, ctxs, heap,
                  raced, crashed, nCloses, ghostVars >>

\* Something calls Error() on a value of type Error.
StartError(t, code) ==
  /\ Running
  /\ pc[t] = "idle"
  /\ SetLoc(t, [NoLoc EXCEPT !.op = "Error", !.args.v = code])
  /\ Goto(t, "gwc_once")
  /\ UNCHANGED << envVars, onceVars, initErr, globalCtx, rt, ctxs, heap,
                  handles, raced, crashed, nCloses, ghostVars >>

\* A goroutine calls CloseWasmContext.
StartClose(t) ==
  /\ Running
  /\ pc[t] = "idle"
  /\ (nCloses < MaxCloses \/ ~ClosePasses)
  /\ SetLoc(t, [NoLoc EXCEPT !.op = "Close"])
  /\ Goto(t, "close_check")
  /\ UNCHANGED << envVars, onceVars, initErr, globalCtx, rt, ctxs, heap,
                  handles, raced, crashed, nCloses, ghostVars >>

\* The buffers and values a caller can pass.
ArgsOf(op) ==
  IF op \in PlcOps THEN { [NoArgs EXCEPT !.cap = n] : n \in 0..MaxLen }
  ELSE IF op \in CodecOps
    THEN { [NoArgs EXCEPT !.len = m, !.cap = n] : m, n \in 0..MaxLen }
  ELSE IF op = "SetBitrate" THEN { [NoArgs EXCEPT !.v = x] : x \in Values }
  ELSE { NoArgs }

\* Packets for a decode with room for MaxLen samples: good ones and
\* corrupted ones of every length; with no byte at all a packet is too short.
Packets ==
  { [NoArgs EXCEPT !.len = m, !.cap = MaxLen, !.bad = b] :
      m \in 0..MaxLen, b \in BOOLEAN }

\* Buffers of one element, which a mono handle accepts.
FitArgs == [NoArgs EXCEPT !.len = 1, !.cap = 1, !.v = 1]

\* enc.wctx: the context a method works on is the one its handle was made
\* with, whatever the process-wide one is by now.
CtxOfGlobal(hd) == globalCtx
CtxOf(hd) == hd.wctx

\* enc := &Encoder{}: the caller makes an encoder itself, so one with no
\* context and no state.
ZeroValue(h) ==
  /\ Running
  /\ Unused # {}
  /\ h = CHOOSE x \in Unused : \A y \in Unused : x <= y
  /\ handles' = [handles EXCEPT ![h] = [state |-> "live", kind |-> "enc",
                    wctx |-> 0, ptr |-> 0, channels |-> 0, maker |-> 0]]
  /\ UNCHANGED << envVars, onceVars, initErr, globalCtx, rt, ctxs, heap, pc,
                  loc, raced, crashed, nCloses, ghostVars >>

\* A goroutine calls a method of a handle a constructor has returned, or of
\* one it has made itself.
StartOp(t, h, op, a) ==
  /\ Running
  /\ pc[t] = "idle"
  /\ handles[h].state = "live"
  /\ op \in OpsOf(handles[h].kind)
  /\ a \in ArgsOf(op) \cup {FitArgs} \cup Packets
  /\ SetLoc(t, [NoLoc EXCEPT !.op = op, !.h = h,
                             !.wctx = CtxOf(handles[h]),
                             !.args = a,
                             !.dst = [i \in 1..a.cap |-> << >>],
                             !.before = IF handles[h].wctx = 0 THEN {}
                                        ELSE Live(handles[h].wctx)])
  /\ Goto(t, "op_check")
  /\ UNCHANGED << envVars, onceVars, initErr, globalCtx, rt, ctxs, heap,
                  handles, raced, crashed, nCloses, ghostVars >>

\* The caller of a method that returned a bridge error calls it again, once,
\* with the same arguments; prev remembers the error of the first call.
Retry(t) ==
  /\ Running
  /\ pc[t] = "done"
  /\ loc[t].op \in HandleOps
  /\ loc[t].err.kind = "proto"
  /\ loc[t].prev = NoErr
  /\ handles[loc[t].h].state = "live"
  /\ SetLoc(t, [NoLoc EXCEPT !.op = loc[t].op, !.h = loc[t].h,
                             !.wctx = handles[loc[t].h].wctx,
                             !.args = loc[t].args,
                             !.dst = [i \in 1..loc[t].args.cap |-> << >>],
                             !.before = Live(handles[loc[t].h].wctx),
                             !.prev = loc[t].err])
  /\ Goto(t, "op_check")
  /\ UNCHANGED << envVars, onceVars, initErr, globalCtx, rt, ctxs, heap,
                  handles, raced, crashed, nCloses, ghostVars >>

\* The handler has returned; a handle whose construction failed is garbage.
Finish(t) ==
  /\ Running
  /\ pc[t] = "done"
  /\ LET h == loc[t].h
         garbage == h # 0 /\ handles[h].state = "new"
     IN  /\ handles' = IF garbage THEN [handles EXCEPT ![h] = NoHandle]
                       ELSE handles
         /\ stateFrees' = IF garbage THEN [stateFrees EXCEPT ![h] = 0]
                          ELSE stateFrees
  /\ SetLoc(t, NoLoc)
  /\ Goto(t, "idle")
  /\ UNCHANGED << envVars, onceVars, initErr, globalCtx, rt, ctxs, heap,
                  raced, crashed, nCloses, badFree, relCalls, shadow >>

\* ------------------------------------------------------------ specifications
Channels == 0..3

GetWasmContextSteps(t) ==
  \/ OnceDo(t) \/ InitLoad(t) \/ InitResolve(t) \/ InitConsts(t)
  \/ InitEnd(t) \/ GwcReturn(t)

CtorSteps(t) == CtorMake(t) \/ CtorMalloc(t) \/ CtorInit(t) \/ CtorFree(t)

CloseSteps(t) ==
  \/ CloseCheck(t) \/ CloseRuntime(t) \/ CloseClear(t) \/ CloseGlobal(t)
  \/ CloseOnce(t) \/ CloseErr(t)

\* First use: goroutines call GetWasmContext, directly and through
\* NewEncoder, with any embedded binary and a sandbox that does not fail;
\* nobody tears the context down.
InitFirstUse == InitWith(Binaries, FALSE)
NextFirstUse ==
  \E t \in Tasks :
    \/ StartGetWasmContext(t)
    \/ StartNew(t, "NewEncoder", 1)
    \/ GetWasmContextSteps(t)
    \/ CtorMake(t) \/ CtorMalloc(t) \/ CtorInit(t)
    \/ Finish(t)
SpecFirstUse == InitFirstUse /\ [][NextFirstUse]_vars

\* A binary that cannot be initialised: goroutines call GetWasmContext, the
\* constructors and CloseWasmContext in any order and at any moment.  (With
\* such a binary no constructor gets past GetWasmContext and no
\* CloseWasmContext gets past its nil check.)
BrokenBinaries ==
  { b \in Binaries : ~b.compile \/ ~b.instantiate \/ b.missing # {} }
InitBroken == InitWith(BrokenBinaries, TRUE)
NextBroken ==
  \E t \in Tasks :
    \/ StartGetWasmContext(t)
    \/ \E op \in {"NewEncoder", "NewDecoder"}, ch \in Channels :
         StartNew(t, op, ch)
    \/ StartClose(t)
    \/ OnceDo(t) \/ InitLoad(t) \/ InitResolve(t) \/ InitEnd(t) \/ GwcReturn(t)
    \/ CloseCheck(t)
    \/ Finish(t)
SpecBroken == InitBroken /\ [][NextBroken]_vars

\* The specifications below have one goroutine do one thing after another.
Main == CHOOSE t \in Tasks : \A u \in Tasks : t <= u
OpSteps(t) == OpCheck(t) \/ Scratch(t) \/ Call(t) \/ Return(t) \/ Unwind(t)
Ctors == {"NewEncoder", "NewDecoder"}

\* Teardown: a good binary and a sandbox that does not fail.  Handles are
\* constructed and used with every operation and every buffer, before and
\* after CloseWasmContext and after the initialisation that follows it.
TeardownArgs(op) == IF op \in CodecOps THEN {NoArgs, FitArgs} ELSE {FitArgs}
InitTeardown == InitWith({GoodBinary}, FALSE)
NextTeardown ==
  \/ StartGetWasmContext(Main)
  \/ \E op \in Ctors : StartNew(Main, op, 1)
  \/ \E h \in Handles, op \in HandleOps :
       \E a \in TeardownArgs(op) : StartOp(Main, h, op, a)
  \/ StartClose(Main)
  \/ OnceDo(Main) \/ InitLoad(Main) \/ InitResolve(Main) \/ InitConsts(Main)
  \/ InitEnd(Main) \/ GwcReturn(Main)
  \/ CtorMake(Main) \/ CtorMalloc(Main) \/ CtorInit(Main)
  \/ OpSteps(Main)
  \/ CloseSteps(Main)
  \/ Finish(Main)
SpecTeardown == InitTeardown /\ [][NextTeardown]_vars

\* Release: a sandbox that may fail at every call.  Constructions, one
\* operation of each shape (two scratch blocks, one freed by an inner frame,
\* one block) with buffers it accepts, finalizers run up to
\* MaxRelease times per handle, CloseWasmContext and initialisation again.
ShapeOps == {"Encode", "Decode", "Bitrate"}
InitRelease == InitWith({GoodBinary}, TRUE)
NextRelease ==
  \/ \E op \in Ctors : StartNew(Main, op, 1)
  \/ \E h \in Handles, op \in ShapeOps : StartOp(Main, h, op, FitArgs)
  \/ StartClose(Main)
  \/ GetWasmContextSteps(Main)
  \/ CtorSteps(Main)
  \/ OpSteps(Main)
  \/ CloseSteps(Main)
  \/ \E h \in Handles : Finalize(h)
  \/ Finish(Main)
SpecRelease == InitRelease /\ [][NextRelease]_vars

\* Scratch: a sandbox that may fail at every call; every operation that
\* takes scratch memory, with every buffer, on handles of either kind and
\* channel count.
ScratchOps == CodecOps \cup GetOps
InitScratch == InitWith({GoodBinary}, TRUE)
NextScratch ==
  \/ \E op \in Ctors, ch \in Channels : StartNew(Main, op, ch)
  \/ \E h \in Handles, op \in ScratchOps \cup {"Reset"} :
       \E a \in ArgsOf(op) : StartOp(Main, h, op, a)
  \/ GetWasmContextSteps(Main)
  \/ CtorSteps(Main)
  \/ OpSteps(Main)
  \/ Finish(Main)
SpecScratch == InitScratch /\ [][NextScratch]_vars

\* A failing sandbox under every method of a mono handle, and a caller that
\* calls again after a bridge error.
InitFaults == InitWith({GoodBinary}, TRUE)
NextFaults ==
  \/ \E op \in Ctors : StartNew(Main, op, 1)
  \/ \E h \in Handles, op \in HandleOps : StartOp(Main, h, op, FitArgs)
  \/ \E h \in Handles, ch \in Channels : StartInit(Main, h, ch)
  \/ GetWasmContextSteps(Main)
  \/ CtorSteps(Main)
  \/ OpSteps(Main)
  \/ InitCheck(Main)
  \/ Retry(Main)
  \/ Finish(Main)
SpecFaults == InitFaults /\ [][NextFaults]_vars

\* Packets: a sandbox that does not fail, mono decoders, every decode method
\* given good, corrupted and empty packets.
InitPackets == InitWith({GoodBinary}, FALSE)
NextPackets ==
  \/ StartNew(Main, "NewDecoder", 1)
  \/ \E h \in Handles, op \in DecodeOps, a \in Packets :
       StartOp(Main, h, op, a)
  \/ GetWasmContextSteps(Main)
  \/ CtorMake(Main) \/ CtorMalloc(Main) \/ CtorInit(Main)
  \/ OpSteps(Main)
  \/ Finish(Main)
SpecPackets == InitPackets /\ [][NextPackets]_vars

\* freeMemory applied to every address, allocated or not, of a context in
\* which constructors have left state blocks.
InitFree == InitWith({GoodBinary}, TRUE)
NextFree ==
  \/ \E op \in Ctors : StartNew(Main, op, 1)
  \/ \E p \in Ptrs \cup {0} : StartFree(Main, p)
  \/ GetWasmContextSteps(Main)
  \/ CtorSteps(Main)
  \/ FreeMemory(Main)
  \/ Finish(Main)
SpecFree == InitFree /\ [][NextFree]_vars

\* writeToMemory with slices of every length, the empty one included, on a
\* context whose allocator and memory may fail and that fills up.
InitWrite == InitWith({GoodBinary}, TRUE)
NextWrite ==
  \/ \E op \in Ctors : StartNew(Main, op, 1)
  \/ \E n \in 0..MaxLen : StartWrite(Main, n)
  \/ GetWasmContextSteps(Main)
  \/ CtorSteps(Main)
  \/ WriteToMemory(Main)
  \/ Finish(Main)
SpecWrite == InitWrite /\ [][NextWrite]_vars

\* Messages: Error() is called on codec errors, before and after the context
\* exists and after it has been closed, with binaries that cannot be
\* initialised or that lack opus_strerror, and a sandbox that can fail.
MessageBinaries ==
  { GoodBinary,
    [GoodBinary EXCEPT !.strerror = FALSE],
    [GoodBinary EXCEPT !.compile = FALSE],
    [GoodBinary EXCEPT !.consts = FALSE] }
InitMessage == InitWith(MessageBinaries, TRUE)
NextMessage ==
  \/ \E code \in NegCodes : StartError(Main, code)
  \/ StartClose(Main)
  \/ GetWasmContextSteps(Main)
  \/ ErrorString(Main)
  \/ CloseSteps(Main)
  \/ Finish(Main)
SpecMessage == InitMessage /\ [][NextMessage]_vars

\* Concurrent use: a good binary, a sandbox that does not fail.  Every
\* goroutine constructs encoders and drives the ones it constructed.
ConcOps == {"Encode", "Bitrate"}
InitConc == InitWith({GoodBinary}, FALSE)
NextConc ==
  \E t \in Tasks :
    \/ StartNew(t, "NewEncoder", 1)
    \/ \E h \in Handles, op \in ConcOps :
         handles[h].maker = t /\ StartOp(t, h, op, FitArgs)
    \/ GetWasmContextSteps(t)
    \/ CtorMake(t) \/ CtorMalloc(t) \/ CtorInit(t)
    \/ OpSteps(t)
    \/ Finish(t)
SpecConc == InitConc /\ [][NextConc]_vars

\* Teardown under use: a good binary, a sandbox that does not fail.  While
\* one goroutine calls GetWasmContext, constructs encoders and drives them,
\* the others may call CloseWasmContext at any moment.
InitRace == InitWith({GoodBinary}, FALSE)
NextRace ==
  \/ StartGetWasmContext(Main)
  \/ StartNew(Main, "NewEncoder", 1)
  \/ \E h \in Handles, op \in ConcOps : StartOp(Main, h, op, FitArgs)
  \/ GetWasmContextSteps(Main)
  \/ CtorSteps(Main)
  \/ OpSteps(Main)
  \/ \E u \in Tasks \ {Main} : StartClose(u)
  \/ \E u \in Tasks \ {Main} : CloseSteps(u)
  \/ \E t \in Tasks : Finish(t)
SpecRace == InitRace /\ [][NextRace]_vars

\* Bare encoders: the control accessors called on encoders the constructor
\* has returned and on zero-value ones.
InitBare == InitWith({GoodBinary}, FALSE)
NextBare ==
  \/ StartNew(Main, "NewEncoder", 1)
  \/ \E h \in Handles : ZeroValue(h)
  \/ \E h \in Handles, op \in OpsOf("enc") \ EncodeOps :
       StartOp(Main, h, op, FitArgs)
  \/ GetWasmContextSteps(Main)
  \/ CtorMake(Main) \/ CtorMalloc(Main) \/ CtorInit(Main)
  \/ OpSteps(Main)
  \/ Finish(Main)
SpecBare == InitBare /\ [][NextBare]_vars

\* Marshalling: slices of up to MaxLen samples are converted to bytes and
\* any prefix of the bytes is converted back into a slice of any length.
InitMarshal == InitWith({GoodBinary}, FALSE)
NextMarshal ==
  \/ /\ pc[Main] = "idle"
     /\ \E k, m \in 0..MaxLen, n \in 0..(2 * MaxLen) :
          \E s \in [1..k -> Samples], d \in [1..m -> {0, -1}] :
            ToBytes(Main, s, d, n)
  \/ FromBytes(Main)
SpecMarshal == InitMarshal /\ [][NextMarshal]_vars

\* ================================================================== claims
GwcOps      == {"GetWasmContext", "NewEncoder", "NewDecoder"}
AfterGwcPcs == {"ctor_make", "ctor_malloc", "ctor_init", "ctor_free", "done"}
\* t's call of GetWasmContext has returned
GwcReturned(t) == pc[t] \in AfterGwcPcs /\ loc[t].op \in GwcOps
\* ... with a nil error
GwcSucceeded(t) == GwcReturned(t) /\ loc[t].err.kind # "init"

\* C4: under concurrent first use the body of initWasm runs exactly once,
\* no caller gets past the Once before the body has returned, and all callers
\* that get a nil error get the same, published context.
C4_InitOnce ==
  /\ nInits <= 1
  /\ \A t \in Tasks :
       (pc[t] = "gwc_ret" \/ GwcReturned(t)) => (nInits = 1 /\ bodyDone)
  /\ \A t, u \in Tasks :
       (GwcSucceeded(t) /\ GwcSucceeded(u)) =>
         /\ loc[t].wctx = loc[u].wctx
         /\ loc[t].wctx # 0
         /\ ctxs[loc[t].wctx].funcs = Names

C4_Witness ==
  /\ nInits = 1
  /\ \A t \in Tasks : pc[t] = "done" /\ loc[t].err = NoErr
  /\ \E t \in Tasks : loc[t].op = "NewEncoder"
  /\ \E t \in Tasks : loc[t].op = "GetWasmContext"

\* C5: once initialization has failed, every call of GetWasmContext that
\* returns, returns that error and no context; the error never changes and
\* the body never runs again; no constructor leaves a usable handle.
C5_FailureReplayed ==
  /\ [](/\ \A t \in Tasks :
             GwcReturned(t) =>
               /\ initErr # NoErr
               /\ loc[t].err = WrapInit(initErr)
               /\ loc[t].wctx = 0
        /\ \A h \in Handles : handles[h].state # "live")
  /\ [][(bodyDone /\ initErr # NoErr) =>
          (initErr' = initErr /\ nInits' = nInits)]_vars

C5_Witness ==
  /\ bodyDone /\ initErr # NoErr
  /\ \E t, u \in Tasks :
       /\ t # u
       /\ pc[t] = "done" /\ loc[t].op = "NewEncoder"
       /\ loc[t].err.kind = "init"
       /\ pc[u] = "done" /\ loc[u].op = "Close"

\* C6: with a required entry point missing no context is ever published,
\* the runtime of the attempt is closed as soon as the entries have been
\* looked up, and every call of GetWasmContext returns the error naming the
\* first missing entry.
MissingOnly == binary.compile /\ binary.instantiate /\ binary.missing # {}

C6_MissingEntryFails ==
  MissingOnly =>
    /\ globalCtx = 0
    /\ \A c \in CtxIds : ctxs[c] = NilCtx
    /\ \A k \in CtxIds :
         rt[k] = "open" => \E t \in Tasks : pc[t] = "init_resolve"
    /\ bodyDone => rt[1] = "closed"
    /\ \A t \in Tasks :
         GwcReturned(t) =>
           loc[t].err = Err("init", 0, FirstMissing(binary.missing))

C6_Witness ==
  /\ MissingOnly
  /\ Cardinality(binary.missing) = 2
  /\ rt[1] = "closed"
  /\ \A t \in Tasks :
       /\ pc[t] = "done"
       /\ loc[t].op = "GetWasmContext"
       /\ loc[t].err = Err("init", 0, "opus_encode")

\* An operation that has asked something of the sandbox and has not returned.
Busy(t) == loc[t].log # << >> /\ pc[t] \notin {"idle", "done"}

\* C1: operations against one instance are serialized: no two goroutines are
\* at the same time between the first sandbox call and the return of an
\* operation on the same context.
C1_Serialized ==
  \A t, u \in Tasks :
    (t # u /\ Busy(t) /\ Busy(u)) => loc[t].wctx # loc[u].wctx

\* C2: with every handle driven by the goroutine that constructed it, a
\* control get that succeeds returns what a serial run of that handle's
\* operations returns: the value the handle's state block was last given.
C2_SameAsSerial ==
  \A t \in Tasks :
    (pc[t] = "done" /\ loc[t].op = "Bitrate" /\ loc[t].err = NoErr) =>
      loc[t].val = shadow[loc[t].h]

\* C3: two handles that are live at the same time reference distinct
\* contexts, so distinct instances and linear memories.
C3_OwnInstance ==
  \A g, h \in Handles :
    (g # h /\ handles[g].state = "live" /\ handles[h].state = "live") =>
      handles[g].wctx # handles[h].wctx

\* CloseWasmContext has completed for context c.
TornDown(c) == c # 0 /\ rt[c] = "closed" /\ globalCtx # c

\* C7: an operation on a handle whose context has been torn down asks
\* nothing of the sandbox and returns an error, and nothing panics.
C7_PostTeardownFails ==
  /\ crashed = "no"
  /\ \A t \in Tasks :
       (loc[t].op \in HandleOps /\ TornDown(loc[t].wctx)) =>
         /\ loc[t].log = << >>
         /\ pc[t] = "done" => loc[t].err # NoErr

C7_Witness ==
  /\ globalCtx # 0
  /\ \E t \in Tasks :
       /\ pc[t] = "done"
       /\ loc[t].op = "DecodeFEC"
       /\ loc[t].args = FitArgs
       /\ TornDown(loc[t].wctx)
       /\ loc[t].err = ProtoErr("malloc is nil")

\* C8: the state pointer of a handle is passed to free at most once; a
\* collected handle holds pointer 0 exactly when it was; the first run of
\* the cleanup on an intact context frees the block, and every further run
\* changes nothing in the sandbox.
C8_ReleaseOnce ==
  /\ [](\A h \in Handles :
          /\ stateFrees[h] <= 1
          /\ handles[h].state = "collected" =>
               (handles[h].ptr = 0 <=> stateFrees[h] = 1))
  /\ [][\A h \in Handles :
          /\ (relCalls[h] >= 1 /\ relCalls'[h] > relCalls[h]) =>
               (heap' = heap /\ stateFrees' = stateFrees)
          /\ (relCalls[h] = 0 /\ relCalls'[h] = 1
                /\ FinalizerFrees(handles[h]) /\ Open(handles[h].wctx)) =>
               /\ heap'[handles[h].wctx][handles[h].ptr] = FreeCell
               /\ stateFrees'[h] = 1
               /\ handles'[h].ptr = 0]_vars

C8_Witness ==
  \E h \in Handles :
    /\ relCalls[h] = MaxRelease
    /\ stateFrees[h] = 1
    /\ handles[h].ptr = 0
    /\ Open(handles[h].wctx)

\* C9: free is never called with an address that holds no live allocation
\* of the instance, or an allocation made for another handle.
C9_NoBadFree == ~badFree

FreesIn(log, q) ==
  Cardinality({ i \in DOMAIN log : log[i].fn = "free" /\ log[i].args = << q >> })
MallocsIn(log, q) ==
  Cardinality({ i \in DOMAIN log : log[i].fn = "malloc" /\ log[i].res = q })

C9_Witness ==
  /\ nCloses >= 1
  /\ \E h \in Handles : stateFrees[h] = 1 /\ handles[h].state = "collected"
  /\ \E t \in Tasks, q \in Ptrs :
       /\ pc[t] = "done"
       /\ loc[t].op = "Decode"
       /\ loc[t].err = NoErr
       /\ FreesIn(loc[t].log, q) = 1
       /\ loc[t].log[Len(loc[t].log)].fn = "free"

StateBlocks(c) ==
  { handles[h].ptr : h \in { g \in Handles : /\ handles[g].wctx = c
                                             /\ handles[g].state = "live" } }

\* C11: construct-then-release leaves the context as it was: between
\* operations the live allocations of an open context are the state blocks
\* of its live handles, so a released handle has left nothing behind and the
\* address it held can serve the next construction.
C11_ReleaseRestores ==
  (\A t \in Tasks : pc[t] = "idle") =>
    \A c \in CtxIds : Open(c) => Live(c) = StateBlocks(c)

\* A second construction has taken the address the first, released, one held.
C11_Witness ==
  /\ \A t \in Tasks : pc[t] = "idle"
  /\ \E g, h \in Handles :
       /\ handles[g].state = "collected" /\ stateFrees[g] = 1
       /\ handles[h].state = "live" /\ handles[h].maker # 0
       /\ handles[h].wctx = handles[g].wctx
       /\ Open(handles[h].wctx)
       /\ handles[g].ptr = 0
       /\ Live(handles[h].wctx) = {handles[h].ptr}
       /\ g < h

\* The init call of a constructor failed: it trapped or returned a code
\* other than OPUS_OK.
InitFailedIn(log) ==
  \E i \in DOMAIN log :
    /\ log[i].fn \in {"opus_encoder_init", "opus_decoder_init"}
    /\ (log[i].failed \/ log[i].res # OPUS_OK)

\* C12: a constructor whose init call fails has, when it returns, freed the
\* state block once, set the state pointer to 0 and kept the handle to
\* itself (it is not live, no cleanup ever runs for it), and it returns the
\* code as an Error, or a plain error for a failed call.
C12_InitFailureCleansUp ==
  \A t \in Tasks :
    (pc[t] = "done" /\ loc[t].op \in Ctors /\ InitFailedIn(loc[t].log)) =>
      LET h == loc[t].h
          log == loc[t].log
      IN  /\ handles[h].ptr = 0
          /\ handles[h].state = "new"
          /\ relCalls[h] = 0
          /\ stateFrees[h] = 1
          /\ \A q \in Ptrs :
               MallocsIn(log, q) = 1 =>
                 (FreesIn(log, q) = 1 /\ heap[loc[t].wctx][q] = FreeCell)
          /\ loc[t].err \in {CodecErr(OPUS_BAD_ARG), ProtoErr("init failed")}
          /\ loc[t].err.kind = "codec" <=> ~log[Len(log) - 1].failed

C12_Witness ==
  \E t \in Tasks :
    /\ pc[t] = "done"
    /\ loc[t].op = "NewDecoder"
    /\ loc[t].args.ch = 2
    /\ loc[t].err = CodecErr(OPUS_BAD_ARG)
    /\ stateFrees[loc[t].h] = 1
    /\ Len(loc[t].log) = 4

\* C13: a constructor given a channel count other than 1 or 2 asks nothing
\* of the sandbox for the handle, and returns the channel-count error with
\* the state pointer 0, nothing allocated and no handle.
C13_BadChannelsRejected ==
  \A t \in Tasks :
    (loc[t].op \in Ctors /\ loc[t].args.ch \notin {1, 2}) =>
      /\ loc[t].log = << >>
      /\ handles[loc[t].h].ptr = 0
      /\ handles[loc[t].h].state = "new"
      /\ stateFrees[loc[t].h] = 0
      /\ pc[t] \notin {"ctor_malloc", "ctor_init", "ctor_free"}
      /\ pc[t] = "done" => loc[t].err = InputErr("channels")

C13_Witness ==
  \E t \in Tasks :
    /\ pc[t] = "done"
    /\ loc[t].op = "NewEncoder"
    /\ loc[t].args.ch = 0
    /\ loc[t].err = InputErr("channels")
    /\ \E h \in Handles : handles[h].state = "live"

\* The buffers Encode and the Decode variants refuse.
InvalidArgs(op, ch, a) ==
  IF op \in EncodeOps THEN a.len = 0 \/ a.cap = 0 \/ a.len % ch # 0
  ELSE a.cap = 0 \/ a.cap % ch # 0

\* C14: an encode or decode given buffers it refuses never reaches the
\* sandbox: no call, no allocation, nothing copied to the destination, the
\* state block still the handle's, and the error it returns is a caller-input
\* error.
C14_InvalidArgsRejected ==
  \A t \in Tasks :
    (/\ loc[t].op \in CodecOps
     /\ InvalidArgs(loc[t].op, handles[loc[t].h].channels, loc[t].args)) =>
      LET hd == handles[loc[t].h] IN
      /\ pc[t] \in {"op_check", "done"}
      /\ loc[t].log = << >>
      /\ loc[t].out = 0
      /\ Live(loc[t].wctx) = loc[t].before
      /\ hd.ptr # 0
      /\ heap[hd.wctx][hd.ptr].kind = hd.kind
      /\ heap[hd.wctx][hd.ptr].owner = loc[t].h
      /\ pc[t] = "done" => (loc[t].err.kind = "input" /\ loc[t].val = 0)

\* A stereo encoder given one sample.
C14_Witness ==
  \E t \in Tasks :
    /\ pc[t] = "done"
    /\ loc[t].op = "EncodeFloat32"
    /\ handles[loc[t].h].channels = 2
    /\ loc[t].args.len = 1 /\ loc[t].args.cap = 2
    /\ loc[t].err = InputErr("multiple of channels")

\* The calls of the operation's codec entry among the calls it has made.
EntryCalls(t) ==
  { i \in 1..Len(loc[t].log) : loc[t].log[i].fn = OpFn(loc[t].op) }

\* C15: an encode or decode calls its codec entry at most once, and when the
\* entry has returned a negative value the operation returns count 0 with the
\* codec error carrying exactly that value.
C15_CodeSurfacedOnce ==
  \A t \in Tasks :
    loc[t].op \in CodecOps =>
      /\ Cardinality(EntryCalls(t)) <= 1
      /\ (pc[t] \in {"unwind", "done"} /\ loc[t].ret < 0) =>
           /\ Cardinality(EntryCalls(t)) = 1
           /\ loc[t].val = 0
           /\ loc[t].out = 0
           /\ loc[t].err = CodecErr(loc[t].ret)

\* A decode whose entry returned the invalid-packet code.
C15_Witness ==
  \E t \in Tasks :
    /\ pc[t] = "done"
    /\ loc[t].op \in DecodeOps
    /\ loc[t].ret = OPUS_INVALID_PACKET
    /\ loc[t].err = CodecErr(OPUS_INVALID_PACKET)
    /\ loc[t].val = 0
    /\ Cardinality(EntryCalls(t)) = 1

\* The handle of the operation still owns its state block.
StateKept(t) ==
  LET hd == handles[loc[t].h] IN
  /\ hd.state = "live"
  /\ hd.ptr # 0
  /\ heap[hd.wctx][hd.ptr].kind = hd.kind
  /\ heap[hd.wctx][hd.ptr].owner = loc[t].h

\* Every block the operation allocated was freed once, none is left.
ScratchGone(t) ==
  /\ loc[t].defers = << >>
  /\ Live(loc[t].wctx) = loc[t].before
  /\ \A q \in Ptrs : FreesIn(loc[t].log, q) = MallocsIn(loc[t].log, q)

\* The allocator returned NULL to the operation.
GotNull(t) ==
  \E i \in DOMAIN loc[t].log :
    /\ loc[t].log[i].fn = "malloc"
    /\ ~loc[t].log[i].failed
    /\ loc[t].log[i].res = 0

\* C16: an operation the allocator has returned NULL to makes no call of its
\* entry and returns a bridge error; its handle keeps its state block, and
\* when it has returned, the scratch it had obtained is freed.
C16_NullAbortsOnlyTheOp ==
  \A t \in Tasks :
    (loc[t].op \in HandleOps /\ GotNull(t)) =>
      /\ pc[t] \in {"unwind", "done"}
      /\ EntryCalls(t) = {}
      /\ loc[t].err = ProtoErr("malloc returned NULL")
      /\ StateKept(t)
      /\ crashed = "no"
      /\ pc[t] = "done" => (ScratchGone(t) /\ loc[t].val = 0)

\* The same Encode called again after the NULL, the allocator now succeeding.
C16_Witness ==
  \E t \in Tasks :
    /\ pc[t] = "done"
    /\ loc[t].op = "Encode"
    /\ loc[t].prev = ProtoErr("malloc returned NULL")
    /\ loc[t].err = NoErr
    /\ loc[t].val = 1
    /\ Cardinality(EntryCalls(t)) = 1

\* A call of the allocator or of the entry trapped.
Trapped(t) ==
  \/ loc[t].trapped
  \/ \E i \in DOMAIN loc[t].log :
       loc[t].log[i].fn = "malloc" /\ loc[t].log[i].failed

C18_HostSurvives == crashed = "no"

\* The init entry returned a code other than OPUS_OK to the constructor.
InitRefused(t) ==
  \E i \in DOMAIN loc[t].log :
    /\ loc[t].log[i].fn = InitFn(KindOf(loc[t].op))
    /\ ~loc[t].log[i].failed
    /\ loc[t].log[i].res # OPUS_OK

\* C19: a constructor or a method returns a codec error exactly when its
\* codec entry has returned a failure code, and then with that code; a
\* refused argument, a failed allocation, a trap and a failed read are
\* returned as errors of the other kinds.
C19_CodecErrorIffCode ==
  \A t \in Tasks :
    pc[t] = "done" =>
      /\ loc[t].op \in HandleOps =>
           /\ loc[t].err.kind = "codec" <=> loc[t].ret < 0
           /\ loc[t].ret < 0 => loc[t].err.code = loc[t].ret
           /\ (GotNull(t) \/ Trapped(t)) => loc[t].err.kind = "proto"
           /\ (loc[t].op \in CodecOps
                 /\ InvalidArgs(loc[t].op, handles[loc[t].h].channels,
                                loc[t].args)) => loc[t].err.kind = "input"
      /\ loc[t].op \in Ctors =>
           /\ loc[t].err.kind = "codec" <=> InitRefused(t)
           /\ loc[t].args.ch \notin {1, 2} => loc[t].err.kind = "input"

\* Reset refused by the codec.
C19_Witness ==
  \E t \in Tasks :
    /\ pc[t] = "done"
    /\ loc[t].op = "Reset"
    /\ loc[t].ret = OPUS_BAD_ARG
    /\ loc[t].err = CodecErr(OPUS_BAD_ARG)
    /\ loc[t].log = << Ev(OpFn("Reset"), << handles[loc[t].h].ptr >>,
                          0, FALSE) >>

\* The placeholders of Error(), each printed with the code.
Placeholders ==
  { "error getting WASM context", "opus_strerror not available",
    "failed calling opus_strerror", "failed reading error string" }

\* What Error() has to return for what happened to it.
MessageFor(t) ==
  IF loc[t].err # NoErr THEN "error getting WASM context"
  ELSE IF ~binary.strerror THEN "opus_strerror not available"
  ELSE IF loc[t].trapped THEN "failed calling opus_strerror"
  ELSE loc[t].msg

\* C20: Error() always returns a string and nothing else happens: the
\* process neither panics nor exits while the message is resolved, and a
\* context that cannot be obtained, a missing opus_strerror and a trapped
\* call each give their placeholder.
C20_MessageAlwaysReturned ==
  \A t \in Tasks :
    loc[t].op = "Error" =>
      /\ crashed = "no"
      /\ pc[t] = "done" =>
           /\ loc[t].msg \in Placeholders \cup {"message"}
           /\ loc[t].msg = MessageFor(t)

\* A packet that is corrupted or too short to be one.
BadPacket(a) == a.bad \/ a.len = 0

\* C21: Decode and DecodeFloat32 given a corrupted or too-short packet return
\* the invalid-packet error, never a nil error with a sample count, and the
\* process goes on.
C21_BadPacketRefused ==
  /\ crashed = "no"
  /\ \A t \in Tasks :
       (/\ pc[t] = "done"
        /\ loc[t].op \in {"Decode", "DecodeFloat32"}
        /\ BadPacket(loc[t].args)
        /\ ~InvalidArgs(loc[t].op, handles[loc[t].h].channels, loc[t].args)) =>
         loc[t].err = CodecErr(OPUS_INVALID_PACKET)

\* C22: the call of the decode entry tells the modes apart: a null input
\* pointer with length 0 comes from the loss-concealment methods only, every
\* other method passes a non-null pointer with len(data), and the last
\* argument is 1 for the FEC methods and 0 for the others.
C22_ModesByArguments ==
  \A t \in Tasks :
    loc[t].op \in DecodeOps =>
      \A i \in EntryCalls(t) :
        LET args == loc[t].log[i].args IN
        /\ (args[2] = 0 /\ args[3] = 0) => loc[t].op \in PlcOps
        /\ loc[t].op \notin PlcOps =>
             (args[2] # 0 /\ args[3] = loc[t].args.len)
        /\ args[6] = 1 <=> loc[t].op \in FecOps
        /\ args[6] \in {0, 1}

\* The value in the state block of handle h.
Setting(h) == heap[handles[h].wctx][handles[h].ptr].val

C24_FreeContract ==
  \A t \in Tasks :
    (pc[t] = "done" /\ loc[t].op = "freeMemory") =>
      /\ loc[t].p1 = 0 => (loc[t].log = << >> /\ loc[t].err = NoErr)
      /\ loc[t].p1 # 0 =>
           (Len(loc[t].log) = 1 /\ FreesIn(loc[t].log, loc[t].p1) = 1)
      /\ (loc[t].p1 # 0 /\ loc[t].p1 \notin loc[t].before) =>
           loc[t].err # NoErr

\* C25: every entry an operation calls is one of the catalogue that
\* initialisation resolved and cached; no operation resolves an entry by
\* name on its own.
C25_OnlyCachedEntries ==
  \A t \in Tasks :
    \A i \in DOMAIN loc[t].log : loc[t].log[i].fn \in Names

\* The caller's destination has not been written to.
Untouched(t) == \A i \in DOMAIN loc[t].dst : loc[t].dst[i] = << >>

\* C26: an encode that returns n and a nil error has 0 <= n <= len(data),
\* has put the first n bytes of the codec's output in data[0:n] and left
\* data[n:] alone; when the entry reports more than len(data) the encode
\* returns an error and data is as it was.
C26_EncodeCopiesExactly ==
  \A t \in Tasks :
    (pc[t] = "done" /\ loc[t].op \in EncodeOps) =>
      /\ Len(loc[t].dst) = loc[t].args.cap
      /\ loc[t].err = NoErr =>
           /\ loc[t].val \in 0..loc[t].args.cap
           /\ loc[t].val = loc[t].ret
           /\ \A i \in DOMAIN loc[t].dst :
                loc[t].dst[i] = IF i <= loc[t].val THEN << CodecByte(i - 1) >>
                                ELSE << >>
      /\ loc[t].err # NoErr => (loc[t].val = 0 /\ Untouched(t))
      /\ loc[t].ret > loc[t].args.cap => loc[t].err.kind = "proto"

\* One byte produced into a destination of two.
C26_Witness ==
  \E t \in Tasks :
    /\ pc[t] = "done" /\ loc[t].op = "EncodeFloat32"
    /\ loc[t].err = NoErr
    /\ loc[t].args.cap = 2
    /\ loc[t].val = 1
    /\ loc[t].dst = << << CodecByte(0) >>, << >> >>

\* What a decode that produced m elements has to leave in pcm.
Decoded(op, m, cap) ==
  [i \in 1..cap |->
     IF i <= m
       THEN [j \in 1..ElemBytes(op) |->
               CodecByte((i - 1) * ElemBytes(op) + ElemBytes(op) - j)]
       ELSE << >>]

\* C27: a decode passes cap(pcm)/channels as the frame size; when it returns
\* n and a nil error, n*channels <= cap(pcm) and pcm[0 : n*channels], and
\* nothing else, holds the little-endian-decoded output; a count whose bytes
\* exceed the output scratch gives an error, with no element written and
\* the process running.
C27_DecodeWritesExactly ==
  \A t \in Tasks :
    loc[t].op \in DecodeOps =>
      LET ch == handles[loc[t].h].channels IN
      /\ crashed = "no"
      /\ \A i \in EntryCalls(t) :
           loc[t].log[i].args[5] = loc[t].args.cap \div ch
      /\ (pc[t] = "done" /\ loc[t].err = NoErr) =>
           /\ loc[t].val * ch <= loc[t].args.cap
           /\ loc[t].dst = Decoded(loc[t].op, loc[t].val * ch, loc[t].args.cap)
      /\ (pc[t] = "done" /\ loc[t].err # NoErr) => Untouched(t)

\* The sandbox calls of an encode that went through: the input block, the
\* output block of len(data) bytes, the entry, then the two frees, last
\* allocated first.
EncodeTrace(t) ==
  LET a  == loc[t].args
      hd == handles[loc[t].h]
      p  == loc[t].p1
      q  == loc[t].p2
  IN  << Ev("malloc", << a.len * ElemBytes(loc[t].op) >>, p, FALSE),
         Ev("malloc", << a.cap >>, q, FALSE),
         Ev(OpFn(loc[t].op), << hd.ptr, p, a.len \div hd.channels, q, a.cap >>,
            0, FALSE),
         Ev("free", << q >>, 0, FALSE),
         Ev("free", << p >>, 0, FALSE) >>

NoFreeYet(t) == \A i \in DOMAIN loc[t].log : loc[t].log[i].fn # "free"

\* C28: an encode writes the input scratch, allocates the output scratch of
\* len(data) bytes, calls the encode entry with (state pointer, input
\* pointer, len(pcm)/channels, output pointer, len(data)), reads the output
\* and only then frees the two blocks; the entry is called only after both
\* allocations succeeded.
C28_EncodeStepOrder ==
  \A t \in Tasks :
    loc[t].op \in EncodeOps =>
      /\ pc[t] = "ret" =>
           /\ loc[t].log = SubSeq(EncodeTrace(t), 1, 3)
           /\ loc[t].p1 # 0 /\ loc[t].p2 # 0
      /\ pc[t] \in {"call", "ret"} => NoFreeYet(t)
      /\ EntryCalls(t) # {} =>
           /\ Len(loc[t].log) >= 3
           /\ SubSeq(loc[t].log, 1, 3) = SubSeq(EncodeTrace(t), 1, 3)
      /\ (pc[t] = "done" /\ loc[t].err = NoErr) =>
           loc[t].log = EncodeTrace(t)

C28_Witness ==
  \E t \in Tasks :
    /\ loc[t].op = "Encode"
    /\ pc[t] = "done"
    /\ loc[t].err = NoErr
    /\ loc[t].val = 1
    /\ loc[t].log = EncodeTrace(t)

\* The sandbox calls of a control get, as far as it got: nothing, a malloc
\* of 4 bytes that gave no block, or the malloc, the entry with (state
\* pointer, block) and the free of the block.
GetTrace(t) ==
  LET log == loc[t].log
      hd  == handles[loc[t].h]
  IN  \/ log = << >>
      \/ /\ Len(log) = 1
         /\ log[1].fn = "malloc" /\ log[1].args = << 4 >>
         /\ (log[1].failed \/ log[1].res = 0)
      \/ /\ Len(log) = 3
         /\ log[1].fn = "malloc" /\ log[1].args = << 4 >>
         /\ ~log[1].failed /\ log[1].res # 0
         /\ log[2] = Ev(OpFn(loc[t].op), << hd.ptr, log[1].res >>, 0, FALSE)
         /\ log[3] = Ev("free", << log[1].res >>, 0, FALSE)

\* The sandbox calls of a control set: none, or the entry alone.
SetTrace(t) ==
  LET log == loc[t].log
      hd  == handles[loc[t].h]
  IN  \/ log = << >>
      \/ /\ Len(log) = 1
         /\ log[1].fn = OpFn(loc[t].op)
         /\ loc[t].op = "SetBitrate" =>
              log[1].args = << hd.ptr, loc[t].args.v >>

\* C29: a control get allocates one 4-byte scratch, calls the entry with
\* (state pointer, scratch pointer), reads the value only after an OK result
\* and frees the scratch on every path; a control set makes one call with
\* (state pointer, value) and allocates nothing; a non-OK code comes back as
\* Error(code) from both.
C29_ControlCalls ==
  \A t \in Tasks :
    (pc[t] = "done" /\ loc[t].op \in GetOps \cup SetOps) =>
      /\ loc[t].op \in GetOps => GetTrace(t)
      /\ loc[t].op \in SetOps => SetTrace(t)
      /\ loc[t].err = NoErr => EntryCalls(t) # {}
      /\ loc[t].err = ProtoErr("read from memory failed") =>
           (loc[t].ret = OPUS_OK /\ ~loc[t].trapped)
      /\ loc[t].ret # OPUS_OK =>
           (loc[t].err = CodecErr(loc[t].ret) /\ loc[t].val = 0)

C29_Witness ==
  \E t \in Tasks :
    /\ pc[t] = "done"
    /\ loc[t].op = "Bitrate"
    /\ loc[t].err = CodecErr(OPUS_BAD_ARG)
    /\ Len(loc[t].log) = 3
    /\ loc[t].log[3].fn = "free"

\* The cleanup of h ran in this step.
Cleaned(h) == relCalls'[h] > relCalls[h]

\* h holds a state pointer and its context still has its free entry.
Guarded(h) ==
  /\ handles[h].ptr # 0
  /\ handles[h].wctx # 0
  /\ "free" \in ctxs[handles[h].wctx].funcs

\* C30: the cleanup run on reclamation calls free for the state pointer only
\* when the pointer is not 0 and the handle's context still holds its free
\* entry, which a torn-down context does not; it then sets the pointer to 0.
\* Otherwise it changes nothing, so a handle is freed at most once.
C30_GuardedCleanup ==
  /\ [](\A h \in Handles : stateFrees[h] <= 1)
  /\ [][\A h \in Handles :
          Cleaned(h) =>
            /\ (handles[h].wctx # 0 /\ ~Open(handles[h].wctx)) => ~Guarded(h)
            /\ IF Guarded(h)
                 THEN /\ stateFrees'[h] = stateFrees[h] + 1
                      /\ handles'[h].ptr = 0
                      /\ heap'[handles[h].wctx][handles[h].ptr] = FreeCell
                 ELSE /\ stateFrees' = stateFrees
                      /\ heap' = heap
                      /\ handles'[h].ptr = handles[h].ptr]_vars

\* One handle was cleaned up twice and freed once; the cleanup of another,
\* run after the teardown of its context, left its pointer alone.
C30_Witness ==
  \E g, h \in Handles :
    /\ relCalls[g] = MaxRelease /\ stateFrees[g] = 1 /\ handles[g].ptr = 0
    /\ relCalls[h] >= 1 /\ stateFrees[h] = 0 /\ handles[h].ptr # 0
    /\ handles[h].state = "collected"
    /\ ~Open(handles[h].wctx)

\* C31: writeToMemory of no bytes asks the allocator for 0 bytes, writes
\* nothing and returns the allocator's pointer, NULL included, without
\* error; of some bytes it returns an error for a NULL block, and when the
\* copy fails it frees the block it has just allocated and returns an error.
C31_WriteToMemory ==
  \A t \in Tasks :
    (pc[t] = "done" /\ loc[t].op = "writeToMemory" /\ loc[t].log # << >>) =>
      LET log == loc[t].log
          n   == loc[t].args.len
          q   == log[1].res
      IN  /\ log[1].fn = "malloc" /\ log[1].args = << n >>
          /\ (n = 0 /\ ~log[1].failed) =>
               /\ Len(log) = 1
               /\ loc[t].err = NoErr
               /\ loc[t].val = q
          /\ (n > 0 /\ ~log[1].failed /\ q = 0) =>
               (Len(log) = 1 /\ loc[t].err # NoErr)
          /\ (n > 0 /\ q # 0) =>
               /\ Len(log) >= 2
               /\ log[2].fn = "write" /\ log[2].args = << q, n >>
               /\ IF log[2].failed
                    THEN /\ loc[t].err # NoErr
                         /\ log = << log[1], log[2],
                                     Ev("free", << q >>, 0, FALSE) >>
                         /\ Live(loc[t].wctx) = loc[t].before
                    ELSE /\ loc[t].err = NoErr
                         /\ loc[t].val = q
                         /\ Len(log) = 2

\* Both ends of the zero-length case, and a failed copy, have been seen.
C31_Witness ==
  \E t \in Tasks :
    /\ pc[t] = "done" /\ loc[t].op = "writeToMemory"
    /\ loc[t].args.len = 0
    /\ loc[t].err = NoErr
    /\ Len(loc[t].log) = 1 /\ ~loc[t].log[1].failed
    /\ loc[t].val = 0
    /\ Live(loc[t].wctx) # {}

\* C32: Init on a handle whose state pointer is not 0 returns the 'already
\* initialized' error and changes nothing: it makes no sandbox call and no
\* allocation, and leaves the handle's pointer and channels as they were.
C32_InitTwiceRefused ==
  /\ [](\A t \in Tasks :
          (pc[t] = "done" /\ loc[t].op = "Init") =>
            /\ loc[t].err = InputErr("already initialized")
            /\ loc[t].log = << >>
            /\ Live(loc[t].wctx) = loc[t].before)
  /\ [][\A t \in Tasks :
          (pc[t] = "init_check" /\ pc'[t] # "init_check"
             /\ handles[loc[t].h].ptr # 0) =>
            /\ pc'[t] = "done"
            /\ handles' = handles
            /\ heap' = heap]_vars

\* Init with another channel count has been refused on a mono handle, which
\* is as it was.
C32_Witness ==
  \E t \in Tasks :
    /\ pc[t] = "done" /\ loc[t].op = "Init"
    /\ loc[t].args.ch = 2
    /\ loc[t].err = InputErr("already initialized")
    /\ handles[loc[t].h].channels = 1
    /\ handles[loc[t].h].ptr # 0
    /\ handles[loc[t].h].state = "live"

\* The runtime of the process-wide context is there to be closed.
Closable == globalCtx # 0 /\ rt[globalCtx] = "open"

\* C33: CloseWasmContext closes a runtime only when an initialisation has
\* left one open, so at most once for each; a call with nothing to close
\* returns nil and changes nothing; the GetWasmContext that follows a close
\* initialises again and returns a context that is not the closed one.
C33_CloseOncePerInit ==
  /\ [](\A t \in Tasks :
          (pc[t] = "done" /\ loc[t].op = "GetWasmContext"
             /\ loc[t].err = NoErr) =>
            /\ loc[t].wctx # 0
            /\ loc[t].wctx = globalCtx
            /\ rt[loc[t].wctx] = "open")
  /\ [](nCloses <= nInits)
  /\ [][\A t \in Tasks :
          (pc[t] = "close_check" /\ pc'[t] # "close_check") =>
            IF Closable
              THEN nCloses' = nCloses + 1 /\ pc'[t] = "close_rt"
              ELSE /\ pc'[t] = "done"
                   /\ loc'[t].err = NoErr
                   /\ UNCHANGED << once, initErr, globalCtx, rt, ctxs, heap,
                                   handles, nCloses >>]_vars

\* A second CloseWasmContext, with no initialisation since the first, has
\* returned.
C33_Witness ==
  \E t \in Tasks :
    /\ pc[t] = "done" /\ loc[t].op = "Close"
    /\ loc[t].val = 0
    /\ loc[t].err = NoErr
    /\ nCloses = 1
    /\ globalCtx = 0
    /\ once = "fresh"
    /\ \E c \in CtxIds : rt[c] = "closed"

\* The context of h has been torn down.
Stale(h) ==
  handles[h].state \in {"live", "collected"} /\ TornDown(handles[h].wctx)

\* C34: a handle made before a teardown keeps the context it was made with;
\* its methods and its cleanup ask nothing of any sandbox, so its state
\* pointer is never passed to, read from or freed in the instance of a later
\* initialisation.
C34_StaleHandleStaysOut ==
  /\ [](\A t \in Tasks :
          (loc[t].op \in HandleOps /\ Stale(loc[t].h)) =>
            /\ loc[t].wctx = handles[loc[t].h].wctx
            /\ loc[t].log = << >>)
  /\ [][/\ \A h \in Handles :
             Stale(h) =>
               /\ handles'[h].wctx = handles[h].wctx
               /\ Cleaned(h) => (heap' = heap /\ stateFrees' = stateFrees)
        /\ \A t \in Tasks :
             (pc'[t] # pc[t] /\ loc[t].op \in HandleOps /\ Stale(loc[t].h)) =>
               heap' = heap]_vars

\* A method of a handle of the first context has returned its error while
\* a handle of the second context holds the same address in the new
\* instance.
C34_Witness ==
  \E t \in Tasks, g \in Handles :
    /\ pc[t] = "done" /\ loc[t].op \in HandleOps
    /\ Stale(loc[t].h)
    /\ loc[t].err # NoErr
    /\ globalCtx # 0 /\ Open(globalCtx)
    /\ handles[g].state = "live" /\ handles[g].wctx = globalCtx
    /\ handles[g].ptr = handles[loc[t].h].ptr
    /\ heap[globalCtx][handles[g].ptr].kind # "free"

\* C35: when GetWasmContext returns a nil error, the context it returns is
\* there and has its module and every cached entry, also when
\* CloseWasmContext runs at the same time.
C35_ReturnedContextComplete ==
  [][\A t \in Tasks :
       (pc[t] = "gwc_ret" /\ pc'[t] # "gwc_ret" /\ loc'[t].err = NoErr) =>
         /\ loc'[t].wctx # 0
         /\ ctxs'[loc'[t].wctx].module
         /\ ctxs'[loc'[t].wctx].funcs = Names]_vars

\* C36: an operation during which CloseWasmContext runs completes or
\* returns an error; it never ends the process by going through the cleared
\* module or function fields.
C36_CloseDuringOpNoPanic ==
  (\E t \in Tasks : loc[t].op \in HandleOps /\ pc[t] \notin {"idle", "done"})
    => crashed # "panic"

\* C37: resolving an error message leaves the lifecycle of the context as
\* it is: no step of Error() starts an initialisation, publishes a context
\* or opens a runtime, so a context that was not there before the call is
\* not there after it.
C37_MessageLeavesLifecycle ==
  [][\A t \in Tasks :
       (loc[t].op = "Error" /\ pc'[t] # pc[t]) =>
         /\ nInits' = nInits
         /\ once' = once
         /\ globalCtx' = globalCtx
         /\ rt' = rt]_vars

\* C38: a control accessor of an encoder whose context is nil or whose
\* state pointer is 0 returns the 'encoder uninitialized' error: it makes no
\* sandbox call and does not go through the context.
C38_BareEncoderRefused ==
  \A t \in Tasks :
    (/\ loc[t].op \in OpsOf("enc") \ EncodeOps
     /\ (handles[loc[t].h].wctx = 0 \/ handles[loc[t].h].ptr = 0)) =>
      /\ crashed = "no"
      /\ loc[t].log = << >>
      /\ pc[t] \in {"op_check", "done"}
      /\ pc[t] = "done" => loc[t].err = Uninit

\* The 16 bits of the int16 v, as an unsigned number.
Bits16(v) == IF v >= 0 THEN v ELSE v + 65536

\* C39: int16SliceToByteSlice(s) has 2*len(s) bytes, sample i low byte first
\* at 2i and 2i+1; int16SliceFromByteSlice of that buffer into a slice of
\* len(s) gives s back, negative samples included; a source of odd length
\* or a destination too small gives an error and leaves the destination as
\* it was.
C39_Int16RoundTrip ==
  \A t \in Tasks :
    loc[t].op \in {"int16SliceToByteSlice", "int16SliceFromByteSlice"} =>
      LET s  == loc[t].pcm
          b  == loc[t].bytes
          n  == loc[t].args.len
          d0 == loc[t].dst0
      IN  /\ Len(b) = 2 * Len(s)
          /\ \A i \in 1..Len(s) :
               /\ b[2 * i - 1] \in 0..255
               /\ b[2 * i] \in 0..255
               /\ b[2 * i - 1] + 256 * b[2 * i] = Bits16(s[i])
          /\ pc[t] = "done" =>
               IF n % 2 = 1 \/ 2 * Len(d0) < n
                 THEN loc[t].err # NoErr /\ loc[t].dst = d0
                 ELSE /\ loc[t].err = NoErr
                      /\ Len(loc[t].dst) = Len(d0)
                      /\ \A i \in 1..Len(d0) :
                           loc[t].dst[i] = IF 2 * i <= n THEN s[i] ELSE d0[i]

\* Two negative samples have come back as they were.
C39_Witness ==
  \E t \in Tasks :
    /\ pc[t] = "done" /\ loc[t].op = "int16SliceFromByteSlice"
    /\ loc[t].pcm = << -32768, -1 >>
    /\ loc[t].bytes = << 0, 128, 255, 255 >>
    /\ loc[t].dst0 = << 0, 0 >>
    /\ loc[t].dst = loc[t].pcm
    /\ loc[t].err = NoErr

====
